---------------------------- MODULE Spec2Model ----------------------------
(***************************************************************************)
(* A model of the CityAssist 311 agent runtime.                            *)
(*                                                                         *)
(*   src/langgraph_bedrock.py  the controller with the static tool         *)
(*                             registry, the OAuth2 token cache and the    *)
(*                             MCP gateway client          (variant "lb")  *)
(*   src/agentcore_311.py      the controller that loads its tools from    *)
(*                             the gateway and builds its graph lazily     *)
(*                                                         (variant "ac")  *)
(*                                                                         *)
(* Text is a sequence of chunks (strings).  A chunk is one character where *)
(* the code looks at characters (the hex-like pattern), and a whole        *)
(* fragment (a word, a label, a field name) where it only concatenates or  *)
(* searches: a substring search is a search for a contiguous run of        *)
(* chunks, and the texts are cut at the boundaries of the searched words.  *)
(* A dict is a function whose domain is its key set.                       *)
(***************************************************************************)
EXTENDS Integers, Sequences, FiniteSets, TLC

(***************************************************************************)
(* Text and dict helpers (Python built-ins)                                *)
(***************************************************************************)
EmptyDict == [k \in {} |-> <<>>]

\* k in d
Has(d, k) == k \in DOMAIN d

\* not d.get(k): the key is absent or its value is falsy (the empty string)
Falsy(d, k) == ~Has(d, k) \/ d[k] = <<>>

\* d[k] = v
Put(d, k, v) == [x \in (DOMAIN d) \cup {k} |-> IF x = k THEN v ELSE d[x]]

\* d without k (the dict left by d.pop(k))
Pop(d, k) == [x \in (DOMAIN d) \ {k} |-> d[x]]

\* {**a, **b}: the keys of both, b's value where both have the key
Merge(a, b) == [x \in (DOMAIN a) \cup (DOMAIN b) |-> IF x \in DOMAIN b THEN b[x] ELSE a[x]]

\* sep.join(parts) for a sequence of chunks
RECURSIVE Join(_, _)
Join(parts, sep) ==
  IF parts = <<>> THEN <<>>
  ELSE IF Len(parts) = 1 THEN <<parts[1]>>
  ELSE <<parts[1], sep>> \o Join(Tail(parts), sep)

\* sep.join(texts) for a sequence of texts
RECURSIVE JoinTexts(_, _)
JoinTexts(texts, sep) ==
  IF texts = <<>> THEN <<>>
  ELSE IF Len(texts) = 1 THEN texts[1]
  ELSE texts[1] \o <<sep>> \o JoinTexts(Tail(texts), sep)

\* needle in text: some contiguous run of chunks of text equals needle
Contains(text, needle) ==
  \E i \in 0..(Len(text) - Len(needle)) :
     \A j \in 1..Len(needle) : text[i + j] = needle[j]

WhiteSpace == {" ", "\n"}

\* text.strip()
RECURSIVE LStrip(_)
LStrip(text) ==
  IF text # <<>> /\ text[1] \in WhiteSpace THEN LStrip(Tail(text)) ELSE text

RECURSIVE RStrip(_)
RStrip(text) ==
  IF text # <<>> /\ text[Len(text)] \in WhiteSpace
  THEN RStrip(SubSeq(text, 1, Len(text) - 1)) ELSE text

Strip(text) == RStrip(LStrip(text))

\* the chunks that have an upper-case spelling in the modelled texts
LowerOf(c) ==
  CASE c = "GUN" -> "gun"
    [] c = "Gun" -> "gun"
    [] c = "FIRE" -> "fire"
    [] c = "Fire" -> "fire"
    [] OTHER -> c

\* re.IGNORECASE: compare the lower-cased text with the lower-case pattern
Lower(text) == [i \in 1..Len(text) |-> LowerOf(text[i])]

(***************************************************************************)
(* Emergency detection                                                     *)
(***************************************************************************)
\* langgraph_bedrock._EMERG_RX, one chunk sequence per alternative
EMERG_RX ==
  { <<"heart attack">>, <<"gun">>, <<"fire">>, <<"shots fired">>, <<"unconscious">>,
    <<"stabbed">>, <<"domestic violence">>, <<"car crash">> }

\* agentcore_311.EMERGENCY_REGEX, the alternatives expanded
EMERGENCY_REGEX ==
  { <<"heart attack">>, <<"gun">>, <<"shots fired">>,
    <<"fire", " ", "in", " ", "my">>, <<"fire", " ", "in", " ", "the">>,
    <<"unconscious">>, <<"not breathing">>, <<"domestic violence">>,
    <<"break", "in">>, <<"break", "-", "in">>, <<"break", " ", "in">>,
    <<"armed">>, <<"stabbed">>, <<"car crash with injuries">> }

EmergencyPattern(v) == IF v = "lb" THEN EMERG_RX ELSE EMERGENCY_REGEX

\* mutant: the search is case-sensitive
is_emergency_case_sensitive(v, text) ==
  \E p \in EmergencyPattern(v) : Contains(text, p)

\* is_emergency(text): re.search(pattern, text or "", re.IGNORECASE)
is_emergency(v, text) ==
  \E p \in EmergencyPattern(v) : Contains(Lower(text), p)

(***************************************************************************)
(* Tool arg normalization (the Argument Normalizer)                        *)
(***************************************************************************)
\* a positional tool input: None, a string, or a dict
NoInput == [kind |-> "none", s |-> <<>>, d |-> EmptyDict]
StrInput(s) == [kind |-> "str", s |-> s, d |-> EmptyDict]
DictInput(d) == [kind |-> "dict", s |-> <<>>, d |-> d]

HexChars ==
  { "0", "1", "2", "3", "4", "5", "6", "7", "8", "9",
    "a", "b", "c", "d", "e", "f", "A", "B", "C", "D", "E", "F" }

HexMinLen == 6
HexMaxLen == 64

\* mutant: the pattern ^[0-9a-fA-F]{6,64}$, without the hyphen
HEXLIKE_no_hyphen(v) ==
  /\ Len(v) >= HexMinLen
  /\ Len(v) <= HexMaxLen
  /\ \A i \in 1..Len(v) : v[i] \in HexChars

\* _HEXLIKE.match(v): ^[0-9a-fA-F-]{6,64}$
HEXLIKE(v) ==
  /\ Len(v) >= HexMinLen
  /\ Len(v) <= HexMaxLen
  /\ \A i \in 1..Len(v) : v[i] \in HexChars \cup {"-"}

\* mutant: the positional dict wins over the keyword arguments
merge_positional_first(positional, kwargs) ==
  LET args0 == kwargs
      args1 == CASE positional.kind = "none" -> args0
                 [] positional.kind = "dict" -> Merge(args0, positional.d)
                 [] OTHER -> Merge(args0, [k \in {"__arg1"} |-> positional.s])
  IN  IF Has(args1, "__arg1") /\ ~(\E k \in {"ticket_id", "query", "category"} : Has(args1, k))
      THEN LET v == args1["__arg1"]
               rest == Pop(args1, "__arg1")
           IN  IF HEXLIKE(v) THEN Put(rest, "ticket_id", v) ELSE Put(rest, "query", v)
      ELSE args1

\* merge_and_normalize_args(positional, kwargs)
merge_and_normalize_args(positional, kwargs) ==
  LET args0 == kwargs
      args1 == CASE positional.kind = "none" -> args0
                 [] positional.kind = "dict" -> Merge(positional.d, args0)
                 [] OTHER -> Merge([k \in {"__arg1"} |-> positional.s], args0)
  IN  IF Has(args1, "__arg1") /\ ~(\E k \in {"ticket_id", "query", "category"} : Has(args1, k))
      THEN LET v == args1["__arg1"]
               rest == Pop(args1, "__arg1")
           IN  IF HEXLIKE(v) THEN Put(rest, "ticket_id", v) ELSE Put(rest, "query", v)
      ELSE args1

\* the four static tools: alias -> remote MCP tool name
ToolAliases ==
  { "create_ticket_tool", "get_ticket_status_tool", "search_kb_tool", "send_email_tool" }

\* mutant: _call closes over the loop variable, every tool calls the last name
McpName_late_bound(alias) == "target-email___send_email"

McpName(alias) ==
  CASE alias = "create_ticket_tool" -> "target-create-ticket___create_ticket"
    [] alias = "get_ticket_status_tool" -> "target-get-ticket-status___get_ticket_status"
    [] alias = "search_kb_tool" -> "target-knowledge-base___search_kb"
    [] alias = "send_email_tool" -> "target-email___send_email"

\* args[to] = args.pop(from)
Rename(args, from, to) == Put(Pop(args, from), to, args[from])

\* mutant: the aliases are never applied
ApplyAliases_none(alias, args) == args

\* the per-tool aliases of _call, applied to the merged args
ApplyAliases(alias, args) ==
  CASE alias = "create_ticket_tool" ->
         LET a1 == IF ~Has(args, "address") /\ Has(args, "location")
                   THEN Rename(args, "location", "address") ELSE args
         IN  IF ~Has(a1, "contact_email") /\ Has(a1, "email")
             THEN Rename(a1, "email", "contact_email") ELSE a1
    [] alias = "get_ticket_status_tool" ->
         IF ~Has(args, "ticket_id") /\ Has(args, "id")
         THEN Rename(args, "id", "ticket_id") ELSE args
    [] alias = "send_email_tool" ->
         LET a1 == IF ~Has(args, "to_email")
                   THEN IF Has(args, "email") THEN Rename(args, "email", "to_email")
                        ELSE IF Has(args, "contact_email")
                             THEN Rename(args, "contact_email", "to_email")
                             ELSE args
                   ELSE args
         IN  IF ~Has(a1, "status") /\ Has(a1, "ticket_status")
             THEN Rename(a1, "ticket_status", "status") ELSE a1
    [] OTHER -> args

\* mutant: create_ticket's last required field is not required
Required_short(alias) ==
  CASE alias = "create_ticket_tool" -> <<"category", "description", "address">>
    [] alias = "get_ticket_status_tool" -> <<"ticket_id">>
    [] alias = "search_kb_tool" -> <<"query">>
    [] alias = "send_email_tool" -> <<"to_email", "ticket_id", "category", "description", "status">>

\* the fields _call requires of each tool, in the order it tests them
Required(alias) ==
  CASE alias = "create_ticket_tool" -> <<"category", "description", "address", "contact_email">>
    [] alias = "get_ticket_status_tool" -> <<"ticket_id">>
    [] alias = "search_kb_tool" -> <<"query">>
    [] alias = "send_email_tool" -> <<"to_email", "ticket_id", "category", "description", "status">>

\* mutant: a field counts as supplied as soon as its key is present
Missing_absent_only(alias, args) ==
  SelectSeq(Required(alias), LAMBDA k : ~Has(args, k))

\* missing = [k for k in required if not args.get(k)]
Missing(alias, args) ==
  SelectSeq(Required(alias), LAMBDA k : Falsy(args, k))

\* mutant: the message lists the required fields, not the missing ones
MissingMessage_all(alias, missing) ==
  CASE alias = "create_ticket_tool" ->
         <<"To create a ticket I still need: ">> \o Join(Required(alias), ", ") \o <<".">>
    [] alias = "get_ticket_status_tool" ->
         <<"Please provide your 8-character ticket ID.">>
    [] alias = "search_kb_tool" ->
         <<"Tell me what to search for (e.g., 'missed trash pickup').">>
    [] alias = "send_email_tool" ->
         <<"To send the email I need: ">> \o Join(Required(alias), ", ") \o <<".">>

\* the text _call returns when `missing` is not empty
MissingMessage(alias, missing) ==
  CASE alias = "create_ticket_tool" ->
         <<"To create a ticket I still need: ">> \o Join(missing, ", ") \o <<".">>
    [] alias = "get_ticket_status_tool" ->
         <<"Please provide your 8-character ticket ID.">>
    [] alias = "search_kb_tool" ->
         <<"Tell me what to search for (e.g., 'missed trash pickup').">>
    [] alias = "send_email_tool" ->
         <<"To send the email I need: ">> \o Join(missing, ", ") \o <<".">>

(***************************************************************************)
(* Response Formatters (the Result Formatter)                              *)
(***************************************************************************)
\* mutant: the default is dropped
GetOr_empty(d, k, default) == IF Has(d, k) THEN d[k] ELSE <<>>

\* data.get(k, default)
GetOr(d, k, default) == IF Has(d, k) THEN d[k] ELSE default

NA == <<"N/A">>

\* format_create_ticket(data)
format_create_ticket(data) ==
  <<"Ticket Created", "\n", "- Ticket ID: ">> \o GetOr(data, "ticket_id", NA)
    \o <<"\n", "- Status: ">> \o GetOr(data, "status", NA)
    \o <<"\n", "- ETA: ">> \o GetOr(data, "eta_days", NA) \o <<" day(s)">>

\* format_ticket_status(data)
format_ticket_status(data) ==
  <<"Ticket Status", "\n", "- Ticket ID: ">> \o GetOr(data, "ticket_id", NA)
    \o <<"\n", "- Status: ">>
    \o (IF ~Falsy(data, "status") THEN data["status"] ELSE GetOr(data, "ticket_status", NA))
    \o <<"\n", "- Department: ">>
    \o (IF ~Falsy(data, "dept") THEN data["dept"] ELSE GetOr(data, "department", NA))
    \o <<"\n", "- Category: ">> \o GetOr(data, "category", NA)
    \o <<"\n", "- Last Updated: ">> \o GetOr(data, "updated_at", NA)
    \o <<"\n", "- ETA: ">> \o GetOr(data, "eta_days", NA) \o <<" day(s)">>

\* format_search_kb(data), data a dict
format_search_kb(data) ==
  IF ~Falsy(data, "answer") /\ ~Falsy(data, "source")
  THEN data["answer"] \o <<"\n", "\n", "- Source: ">> \o data["source"]
  ELSE IF ~Falsy(data, "answer") THEN data["answer"]
  ELSE IF ~Falsy(data, "error") THEN data["error"]
  ELSE <<"No answer found in the knowledge base.">>

\* format_send_email(data)
format_send_email(data) ==
  IF ~Falsy(data, "message") THEN <<"[mail] ">> \o data["message"]
  ELSE <<"[mail] Email request processed.">>

\* A JSON object is written "{" key value key value ... "}", one chunk per key
\* and one per value; the chunk "\"\"" is the empty string.
JsonValue(chunk) == IF chunk = "\"\"" THEN <<>> ELSE <<chunk>>

\* does json.loads(raw) succeed
JsonWellFormed(raw) ==
  LET s == Strip(raw)
  IN  /\ Len(s) >= 2
      /\ s[1] = "{"
      /\ s[Len(s)] = "}"
      /\ (Len(s) - 2) % 2 = 0
      /\ \A i \in 2..(Len(s) - 1) : s[i] \notin {"{", "}"}

\* json.loads(raw) of a well-formed object; a repeated key keeps its last value
JsonLoads(raw) ==
  LET s == Strip(raw)
      n == (Len(s) - 2) \div 2
      keys == { s[2 * i] : i \in 1..n }
      last(k) == CHOOSE i \in 1..n : s[2 * i] = k /\ \A j \in 1..n : s[2 * j] = k => j <= i
  IN  [k \in keys |-> JsonValue(s[2 * last(k) + 1])]

\* the formatter _call picks for a tool
FormatBody(alias, body) ==
  CASE alias = "create_ticket_tool" -> format_create_ticket(body)
    [] alias = "get_ticket_status_tool" -> format_ticket_status(body)
    [] alias = "search_kb_tool" -> format_search_kb(body)
    [] alias = "send_email_tool" -> format_send_email(body)

\* the tail of _call without the test of body: a formatter for every tool
FormatReturn_always(alias, raw) ==
  LET s == Strip(raw)
      body == IF s # <<>> /\ s[1] = "{" /\ JsonWellFormed(raw)
              THEN JsonLoads(raw) ELSE EmptyDict
  IN  IF alias \notin ToolAliases THEN raw
      ELSE FormatBody(alias, body)

\* the tail of _call: body = json.loads(raw) if raw.strip().startswith("{"),
\* and {} when that raises; a formatter if body is not empty, else raw
FormatReturn(alias, raw) ==
  LET s == Strip(raw)
      body == IF s # <<>> /\ s[1] = "{" /\ JsonWellFormed(raw)
              THEN JsonLoads(raw) ELSE EmptyDict
  IN  IF body = EmptyDict \/ alias \notin ToolAliases THEN raw
      ELSE FormatBody(alias, body)

(***************************************************************************)
(* Exceptions and the values a call yields                                 *)
(***************************************************************************)
NoExc == [type |-> "", status |-> 0, msg |-> <<>>]

\* what a function call yields: a returned text or a raised exception
Returned(text) == [kind |-> "text", text |-> text, exc |-> NoExc]
Raised(exc) == [kind |-> "raise", text |-> <<>>, exc |-> exc]
NoResult == [kind |-> "none", text |-> <<>>, exc |-> NoExc]

\* an event of the run: e is its kind, the other fields hold its data
Ev(e) == [e |-> e, name |-> "", args |-> EmptyDict, n |-> 0, status |-> 0]

\* the events of a log that are of one of the kinds
EventsOfLog(l, kinds) == SelectSeq(l, LAMBDA ev : ev.e \in kinds)

(***************************************************************************)
(* OAuth2 token cache (the Credential Cache)                               *)
(***************************************************************************)
\* the validity margin of fetch_token, in seconds
ExpiryMargin == 60
\* body.get("expires_in", 3600)
DefaultExpiresIn == 3600

\* the latest time the model's clock reaches
MaxClock == 150

\* A response of the token endpoint: the HTTP status, whether the body is
\* JSON (json), whether it has an access_token, and expires_in: "num" (a
\* number, in `expires_in`), "absent", or "bad" (not a number).
TokenResponse(status, has_token, token, exp_kind, expires_in) ==
  [status |-> status, json |-> TRUE, has_token |-> has_token, token |-> token,
   exp_kind |-> exp_kind, expires_in |-> expires_in]

\* a 200 response whose body r.json() cannot parse
UnparsableBody == [TokenResponse(200, FALSE, <<>>, "absent", 0) EXCEPT !.json = FALSE]

TokenResponses ==
  { TokenResponse(200, TRUE, <<"tok-A">>, "num", 30),
    TokenResponse(200, TRUE, <<"tok-B">>, "num", 120) }
    \cup { TokenResponse(200, TRUE, <<"tok-A">>, "absent", 0),
           TokenResponse(200, TRUE, <<"tok-A">>, "bad", 0),
           TokenResponse(200, FALSE, <<>>, "num", 120),
           TokenResponse(500, FALSE, <<>>, "absent", 0),
           UnparsableBody }

\* mutant: the margin is added to the expiry instead of subtracted
CacheValid_late(token, expiry, now) == token # <<>> /\ now < expiry + ExpiryMargin

\* _token and now < _expiry - 60
CacheValid(token, expiry, now) == token # <<>> /\ now < expiry - ExpiryMargin

\* mutant: expires_in is stored as it came, without int()
TokenResponseError_unconverted(resp) ==
  IF resp.status >= 400
    THEN [type |-> "HTTPError", status |-> resp.status, msg |-> <<"Server Error">>]
  ELSE IF ~resp.json
    THEN [type |-> "JSONDecodeError", status |-> 0, msg |-> <<"Expecting value">>]
  ELSE IF ~resp.has_token
    THEN [type |-> "KeyError", status |-> 0, msg |-> <<"'access_token'">>]
  ELSE [type |-> "", status |-> 0, msg |-> <<>>]

\* r.raise_for_status(); r.json(); body["access_token"]; int(body.get("expires_in", 3600))
TokenResponseError(resp) ==
  IF resp.status >= 400
    THEN [type |-> "HTTPError", status |-> resp.status, msg |-> <<"Server Error">>]
  ELSE IF ~resp.json
    THEN [type |-> "JSONDecodeError", status |-> 0, msg |-> <<"Expecting value">>]
  ELSE IF ~resp.has_token
    THEN [type |-> "KeyError", status |-> 0, msg |-> <<"'access_token'">>]
  ELSE IF resp.exp_kind = "bad"
    THEN [type |-> "ValueError", status |-> 0, msg |-> <<"invalid literal for int()">>]
  ELSE NoExc

\* now + int(body.get("expires_in", 3600))
NewExpiry(now, resp) ==
  now + (IF resp.exp_kind = "absent" THEN DefaultExpiresIn ELSE resp.expires_in)

(***************************************************************************)
(* MCP Gateway Client                                                      *)
(***************************************************************************)
\* delay = 0.5, in milliseconds
InitialDelayMs == 500
max_attempts == 4

\* An exception an attempt raises; msg is str(e).
HttpError(status, msg) == [type |-> "HTTPStatusError", status |-> status, msg |-> msg]

RateLimited == HttpError(429, <<"Client error '", "429", " Too Many Requests'">>)
ServerError == HttpError(500, <<"Server error '", "500", " Internal Server Error'">>)
\* a failure other than a rate limit whose text holds the characters 429
\* (here in the URL httpx appends to the message)
ServerErrorAt429 ==
  HttpError(500, <<"Server error '", "500", " Internal Server Error' for url 'https://gw-", "429", "0.example/mcp'">>)

AttemptErrors == { RateLimited, ServerError, ServerErrorAt429 }

\* A content item of a tool response: its text (empty when the item has none)
\* and str(item).
Item(text, dump) == [text |-> text, dump |-> dump]

\* the responses (resp.content) the gateway gives in the model
Responses ==
  { <<>>,
    << Item(<<"Ticket", " ", "created">>, <<"TextContent(...)">>) >>,
    << Item(<<"{", "ticket_id", "6e63bbbe", "status", "OPEN", "}">>, <<"TextContent(...)">>) >>,
    << Item(<<"{", "ticket_id">>, <<"TextContent(...)">>) >>,
    << Item(<<>>, <<"ImageContent(...)">>), Item(<<"line two">>, <<"TextContent(...)">>) >> }

\* _run: parts = [c.text or str(c) for c in resp.content or []];
\* "\n".join(p for p in parts if p)
RunResult(content) ==
  LET parts == [i \in 1..Len(content) |->
                  IF content[i].text # <<>> THEN content[i].text ELSE content[i].dump]
  IN  JoinTexts(SelectSeq(parts, LAMBDA p : p # <<>>), "\n")

\* mutant: the delay is not raised between retries
NextDelay_same(d) == d

\* delay *= 2
NextDelay(d) == d * 2

\* mutant: every failure is retried
IsRetryable_any(exc) == TRUE

\* "429" in str(e)
IsRetryable(exc) == Contains(exc.msg, <<"429">>)

\* mutant: the new token is returned but never stored (no `global` statement)
fetch_token_unstored(token, expiry, now, resp) ==
  IF CacheValid(token, expiry, now)
    THEN [posted |-> FALSE, result |-> Returned(token), token |-> token, expiry |-> expiry]
  ELSE IF TokenResponseError(resp) # NoExc
    THEN [posted |-> TRUE, result |-> Raised(TokenResponseError(resp)),
          token |-> token, expiry |-> expiry]
  ELSE [posted |-> TRUE, result |-> Returned(resp.token), token |-> token, expiry |-> expiry]

\* mutant: _token is assigned before int(expires_in) is evaluated for _expiry
fetch_token_split(token, expiry, now, resp) ==
  IF CacheValid(token, expiry, now)
    THEN [posted |-> FALSE, result |-> Returned(token), token |-> token, expiry |-> expiry]
  ELSE IF TokenResponseError(resp) # NoExc
    THEN [posted |-> TRUE, result |-> Raised(TokenResponseError(resp)),
          token |-> IF TokenResponseError(resp).type = "ValueError" THEN resp.token ELSE token,
          expiry |-> expiry]
  ELSE [posted |-> TRUE, result |-> Returned(resp.token),
        token |-> resp.token, expiry |-> NewExpiry(now, resp)]

\* fetch_token(cfg) run at time `now` on the cache (token, expiry), the token
\* endpoint answering resp when asked: whether the request was posted, what
\* the call yields, and the cache it leaves
fetch_token(token, expiry, now, resp) ==
  IF CacheValid(token, expiry, now)
    THEN [posted |-> FALSE, result |-> Returned(token), token |-> token, expiry |-> expiry]
  ELSE IF TokenResponseError(resp) # NoExc
    THEN [posted |-> TRUE, result |-> Raised(TokenResponseError(resp)),
          token |-> token, expiry |-> expiry]
  ELSE [posted |-> TRUE, result |-> Returned(resp.token),
        token |-> resp.token, expiry |-> NewExpiry(now, resp)]

(***************************************************************************)
(* State                                                                   *)
(***************************************************************************)
VARIABLES
  clock,      \* time.time(), in seconds
  _token,     \* the cached access token, <<>> for None
  _expiry,    \* the cached expiry time
  fetches,    \* the fetch_token calls completed in the run (in the invocation, in Spec)
  call,       \* the _call in progress: [alias, input, kwargs]
  dpc,        \* where that _call is
  args,       \* its merged and normalized args
  tok,        \* the token it fetched
  attempt,    \* call_tool's loop variable
  delay,      \* call_tool's delay, in milliseconds
  result,     \* what the _call yielded
  log,        \* the events of the run (of the invocation, in Spec), oldest first
  threads,    \* the threads inside fetch_token: thread -> [pc, now, token]
  net,        \* what the token endpoint and the gateway may answer in this run
  variant,    \* the program: "lb" (langgraph_bedrock) or "ac" (agentcore_311)
  pc,         \* where invoke is: "idle", "build", "chatbot", "tools", "done"
  payload,    \* invoke's payload
  text,       \* the user text invoke read from it
  messages,   \* the graph state's messages
  pending,    \* the tool calls the tools node has still to run
  outbox,     \* the messages the tools node has produced so far
  ret,        \* what invoke yielded
  graph,      \* the compiled graph: "none" or "built"
  _cached_tools, \* agentcore_311's cached tool list: FALSE for None
  session,    \* the gateway session agentcore_311's tools are bound to
  invocations \* the invocations started so far

tokenVars == <<clock, _token, _expiry, fetches>>
callVars == <<call, dpc, args, tok, attempt, delay, result>>
procVars == <<graph, _cached_tools, session>>
turnVars == <<variant, pc, payload, text, messages, pending, outbox, ret, invocations>>
vars == <<tokenVars, callVars, log, threads, net, procVars, turnVars>>

NoThreads == [t \in {} |-> [pc |-> "idle", now |-> 0, token |-> <<>>]]

\* every answer of the model
FullNet ==
  [token |-> TokenResponses, errors |-> AttemptErrors, contents |-> Responses,
   stages |-> {"call_tool"}]

\* no controller: the specifications of one dispatch and of the token cache
NoTurn ==
  /\ variant = "lb"
  /\ pc = "off"
  /\ payload = EmptyDict
  /\ text = <<>>
  /\ messages = <<>>
  /\ pending = <<>>
  /\ outbox = <<>>
  /\ ret = NoResult
  /\ graph = "built"
  /\ _cached_tools = FALSE
  /\ session = "none"
  /\ invocations = 0

NoCall == [alias |-> "", input |-> NoInput, kwargs |-> EmptyDict]

\* the endpoint was not asked
NoResponse == TokenResponse(0, FALSE, <<>>, "absent", 0)

\* a completed fetch_token call: when it ran, whether it asked the endpoint
\* and what the endpoint answered, what it yielded and the cache it left
Fetch(now, out, resp) ==
  [now |-> now, posted |-> out.posted,
   resp |-> IF out.posted THEN resp ELSE NoResponse, ok |-> out.result.kind = "text",
   token |-> out.result.text, cached |-> <<out.token, out.expiry>>]

(***************************************************************************)
(* Static Tools: _call(input, **kwargs) of one tool, step by step          *)
(***************************************************************************)
\* args = merge_and_normalize_args(input, kwargs), the per-tool aliases and
\* the validation: return the message if a required field is missing
CallNormalize ==
  /\ dpc = "called"
  /\ LET merged == merge_and_normalize_args(call.input, call.kwargs)
         a == ApplyAliases(call.alias, merged)
         missing == Missing(call.alias, a)
     IN  /\ args' = a
         /\ IF missing # <<>>
            THEN /\ dpc' = "returned"
                 /\ result' = Returned(MissingMessage(call.alias, missing))
            ELSE /\ dpc' = "fetch_token"
                 /\ UNCHANGED result
  /\ UNCHANGED <<tokenVars, call, tok, attempt, delay, log, threads, net, procVars, turnVars>>

\* tok = fetch_token(cfg)
CallFetchToken ==
  /\ dpc = "fetch_token"
  /\ \E resp \in net.token :
       LET out == fetch_token(_token, _expiry, clock, resp)
       IN  /\ _token' = out.token
           /\ _expiry' = out.expiry
           /\ fetches' = Append(fetches, Fetch(clock, out, resp))
           /\ log' = IF out.posted THEN Append(log, Ev("token_post")) ELSE log
           /\ IF out.result.kind = "raise"
              THEN /\ dpc' = "raised"
                   /\ result' = out.result
                   /\ UNCHANGED <<tok, attempt, delay>>
              ELSE /\ dpc' = "call_tool"
                   /\ tok' = out.result.text
                   /\ attempt' = 1
                   /\ delay' = InitialDelayMs
                   /\ UNCHANGED result
  /\ UNCHANGED <<clock, call, args, threads, net, procVars, turnVars>>

\* the events of one _with_session(token, _run): the session is opened,
\* initialized, used for one call_tool and closed on the way out
SessionEvents(name, a) ==
  << Ev("session_open"), Ev("initialize"),
     [Ev("call_tool") EXCEPT !.name = name, !.args = a, !.n = attempt],
     Ev("session_close") >>

\* the events of a _with_session(token, _run) that raises: in sess.initialize(),
\* before _run is entered, or in sess.call_tool; the session is closed on the
\* way out of the async with blocks
FailedSessionEvents(stage, name, a) ==
  IF stage = "initialize"
  THEN << Ev("session_open"), Ev("initialize"), Ev("session_close") >>
  ELSE SessionEvents(name, a)

\* one attempt of call_tool succeeds: return result, and _call formats it
CallAttemptOk ==
  /\ dpc = "call_tool"
  /\ \E content \in net.contents :
       /\ log' = log \o SessionEvents(McpName(call.alias), args)
       /\ result' = Returned(FormatReturn(call.alias, RunResult(content)))
       /\ dpc' = "returned"
  /\ UNCHANGED <<tokenVars, call, args, tok, attempt, delay, threads, net, procVars, turnVars>>

\* mutant: the session is closed by hand after fn returns, not by async with
CallAttemptFails_leak ==
  /\ dpc = "call_tool"
  /\ \E exc \in net.errors, stage \in net.stages :
       /\ log' = log \o SelectSeq(FailedSessionEvents(stage, McpName(call.alias), args),
                                  LAMBDA ev : ev.e # "session_close")
                     \o << [Ev("attempt_failed") EXCEPT !.n = attempt, !.status = exc.status] >>
       /\ IF IsRetryable(exc) /\ attempt < max_attempts
          THEN /\ dpc' = "sleep"
               /\ UNCHANGED result
          ELSE /\ dpc' = "raised"
               /\ result' = Raised(exc)
  /\ UNCHANGED <<tokenVars, call, args, tok, attempt, delay, threads, net, procVars, turnVars>>

\* one attempt of call_tool raises: sleep-and-retry on "429" while attempts
\* are left, else raise (nothing in _call catches it)
CallAttemptFails ==
  /\ dpc = "call_tool"
  /\ \E exc \in net.errors, stage \in net.stages :
       /\ log' = log \o FailedSessionEvents(stage, McpName(call.alias), args)
                     \o << [Ev("attempt_failed") EXCEPT !.n = attempt, !.status = exc.status] >>
       /\ IF IsRetryable(exc) /\ attempt < max_attempts
          THEN /\ dpc' = "sleep"
               /\ UNCHANGED result
          ELSE /\ dpc' = "raised"
               /\ result' = Raised(exc)
  /\ UNCHANGED <<tokenVars, call, args, tok, attempt, delay, threads, net, procVars, turnVars>>

\* await anyio.sleep(delay); delay *= 2; continue
CallSleep ==
  /\ dpc = "sleep"
  /\ log' = Append(log, [Ev("sleep") EXCEPT !.n = delay])
  /\ delay' = NextDelay(delay)
  /\ attempt' = attempt + 1
  /\ dpc' = "call_tool"
  /\ UNCHANGED <<tokenVars, call, args, tok, result, threads, net, procVars, turnVars>>

(***************************************************************************)
(* One tool dispatch on every input: SpecDispatch                          *)
(***************************************************************************)
\* the keys a model may pass to each tool
KeysOf(alias) ==
  CASE alias = "create_ticket_tool" ->
         {"category", "description", "address", "contact_email", "location", "email"}
    [] alias = "get_ticket_status_tool" -> {"ticket_id", "id", "query"}
    [] alias = "search_kb_tool" -> {"query", "ticket_id", "category"}
    [] alias = "send_email_tool" ->
         {"to_email", "ticket_id", "category", "description", "status",
          "email", "contact_email", "ticket_status"}

\* the value a keyword argument k carries, and the one a positional dict carries
KwVal(k) == <<"kw", k>>
PosVal(k) == <<"pos", k>>

\* the largest number of empty values among the keyword arguments
MaxEmptyValues == 1

\* every dict over some of the keys, each value empty or the key's value
KwargsOf(alias) ==
  UNION { { [k \in S |-> IF k \in T THEN <<>> ELSE KwVal(k)]
              : T \in { U \in SUBSET S : Cardinality(U) <= MaxEmptyValues } }
          : S \in SUBSET KeysOf(alias) }

HexId == <<"6", "e", "6", "3", "b", "b", "b", "e">>
FreeText == <<"p", "o", "t", "h", "o", "l", "e">>

DashedId == <<"6", "e", "6", "3", "-", "b", "b", "b", "e">>

PositionalInputs ==
  { NoInput, StrInput(HexId), StrInput(DashedId), StrInput(FreeText), StrInput(<<>>),
    DictInput([k \in {"ticket_id"} |-> PosVal(k)]),
    DictInput([k \in {"category", "location"} |-> PosVal(k)]) }

DispatchInputs ==
  UNION { { [alias |-> a, input |-> p, kwargs |-> kw] : p \in PositionalInputs, kw \in KwargsOf(a) }
          : a \in ToolAliases }

\* the caches a dispatch may find: empty, valid
InitialCaches == { <<<<>>, 0>>, <<<<"tok-A">>, 120>> }

InitDispatch ==
  /\ clock = 0
  /\ \E c \in InitialCaches : _token = c[1] /\ _expiry = c[2]
  /\ fetches = <<>>
  /\ call \in DispatchInputs
  /\ dpc = "called"
  /\ args = EmptyDict
  /\ tok = <<>>
  /\ attempt = 0
  /\ delay = 0
  /\ result = NoResult
  /\ log = <<>>
  /\ threads = NoThreads
  /\ net = FullNet
  /\ NoTurn

NextDispatch ==
  \/ CallNormalize
  \/ CallFetchToken
  \/ CallAttemptOk
  \/ CallAttemptFails
  \/ CallSleep

SpecDispatch == InitDispatch /\ [][NextDispatch]_vars

(***************************************************************************)
(* The token cache over time, one caller at a time: SpecToken              *)
(***************************************************************************)
\* the seconds that pass between two looks at the clock
TickSeconds == 30

\* the most fetch_token calls of a run
MaxFetches == 3

\* time passes
Tick ==
  /\ clock + TickSeconds <= MaxClock
  /\ clock' = clock + TickSeconds
  /\ UNCHANGED <<_token, _expiry, fetches, callVars, log, threads, net, procVars, turnVars>>

\* one whole fetch_token(cfg) call
FetchTokenCall ==
  /\ Len(fetches) < MaxFetches
  /\ \E resp \in net.token :
       LET out == fetch_token(_token, _expiry, clock, resp)
       IN  /\ _token' = out.token
           /\ _expiry' = out.expiry
           /\ fetches' = Append(fetches, Fetch(clock, out, resp))
           /\ log' = IF out.posted THEN Append(log, Ev("token_post")) ELSE log
  /\ UNCHANGED <<clock, callVars, threads, net, procVars, turnVars>>

InitToken ==
  /\ clock = 0
  /\ _token = <<>>
  /\ _expiry = 0
  /\ fetches = <<>>
  /\ call = NoCall
  /\ dpc = "idle"
  /\ args = EmptyDict
  /\ tok = <<>>
  /\ attempt = 0
  /\ delay = 0
  /\ result = NoResult
  /\ log = <<>>
  /\ threads = NoThreads
  /\ net = FullNet
  /\ NoTurn

NextToken ==
  \/ Tick
  \/ FetchTokenCall

SpecToken == InitToken /\ [][NextToken]_vars

(***************************************************************************)
(* fetch_token called from several threads at once: SpecThreads            *)
(* (ToolNode runs the tool calls of one reply on a thread pool, and the    *)
(* runtime serves invocations concurrently; fetch_token takes no lock.)    *)
(***************************************************************************)
\* the number of threads calling fetch_token
NThreads == 2

Threads == 1..NThreads

\* now = time.time(); return _token on a hit, else send the token request
ThreadEnter(t) ==
  /\ threads[t].pc = "idle"
  /\ IF CacheValid(_token, _expiry, clock)
     THEN /\ threads' = [threads EXCEPT ![t] = [pc |-> "returned", now |-> clock, token |-> _token]]
          /\ UNCHANGED log
     ELSE /\ threads' = [threads EXCEPT ![t] = [pc |-> "posting", now |-> clock, token |-> <<>>]]
          /\ log' = Append(log, [Ev("token_post") EXCEPT !.n = t])
  /\ UNCHANGED <<tokenVars, callVars, net, procVars, turnVars>>

\* the token endpoint answers: raise, or store the token and return it
ThreadResponse(t) ==
  /\ threads[t].pc = "posting"
  /\ \E resp \in net.token :
       IF TokenResponseError(resp) # NoExc
       THEN /\ threads' = [threads EXCEPT ![t].pc = "raised"]
            /\ UNCHANGED <<_token, _expiry>>
       ELSE /\ _token' = resp.token
            /\ _expiry' = NewExpiry(threads[t].now, resp)
            /\ threads' = [threads EXCEPT ![t].pc = "returned", ![t].token = resp.token]
  /\ UNCHANGED <<clock, fetches, callVars, log, net, procVars, turnVars>>

InitThreads ==
  /\ clock = 0
  /\ \E c \in InitialCaches \cup { <<<<"tok-A">>, 30>> } : _token = c[1] /\ _expiry = c[2]
  /\ fetches = <<>>
  /\ call = NoCall
  /\ dpc = "idle"
  /\ args = EmptyDict
  /\ tok = <<>>
  /\ attempt = 0
  /\ delay = 0
  /\ result = NoResult
  /\ log = <<>>
  /\ threads = [t \in Threads |-> [pc |-> "idle", now |-> 0, token |-> <<>>]]
  /\ net = FullNet
  /\ NoTurn

NextThreads ==
  \/ Tick
  \/ \E t \in Threads : ThreadEnter(t)
  \/ \E t \in Threads : ThreadResponse(t)

SpecThreads == InitThreads /\ [][NextThreads]_vars

(***************************************************************************)
(* LangGraph (LLM + tools) and the runtime entrypoint: Spec                *)
(***************************************************************************)
\* the most model invocations of one turn, and the most invocations of a run
MaxModelCalls == 2
MaxInvocations == 2

Message(role, content, calls, name) ==
  [role |-> role, content |-> content, tool_calls |-> calls, tool_use |-> <<>>, name |-> name]

HumanMessage(content) == Message("user", content, <<>>, "")
SystemMessage(content) == Message("system", content, <<>>, "")
AIMessage(content, calls) == Message("ai", content, calls, "")
ToolMessage(content, name) == Message("tool", content, <<>>, name)

SYSTEM_PROMPT == <<"You are CityAssist, a city 311-style non-emergency assistant.">>

\* d.get(k1) or d.get(k2) or "": the first truthy value
FirstTruthy(d, k1, k2) ==
  IF ~Falsy(d, k1) THEN d[k1] ELSE IF ~Falsy(d, k2) THEN d[k2] ELSE <<>>

\* the text invoke reads from the payload: langgraph_bedrock strips
\* prompt / inputText, agentcore_311 takes prompt / message as it is
UserInput(v, p) ==
  IF v = "lb" THEN Strip(FirstTruthy(p, "prompt", "inputText"))
  ELSE FirstTruthy(p, "prompt", "message")

\* mutant: the emergency reply of the other program
EmergencyReply_swapped(v) ==
  IF v = "ac" THEN <<"Call 911 now.">>
  ELSE <<"This sounds like an emergency. Please call 911 immediately.">>

\* the fixed safety string of each program
EmergencyReply(v) ==
  IF v = "lb" THEN <<"Call 911 now.">>
  ELSE <<"This sounds like an emergency. Please call 911 immediately.">>

\* the assistant text invoke returns: langgraph_bedrock scans the messages
\* from the last, agentcore_311 from the first
Output(v, msgs) ==
  LET ai == { i \in 1..Len(msgs) : msgs[i].role = "ai" }
      pick == IF v = "lb" THEN CHOOSE i \in ai : \A j \in ai : j <= i
              ELSE CHOOSE i \in ai : \A j \in ai : i <= j
  IN  IF ai = {} THEN <<"Sorry, I didn't catch that.">> ELSE msgs[pick].content

\* the tool names each program's tools node knows
ToolNames(v) == IF v = "lb" THEN ToolAliases ELSE { McpName(a) : a \in ToolAliases }

\* tool-call requests of the model
Request(name, input, kwargs) == [alias |-> name, input |-> input, kwargs |-> kwargs]

ToolRequests(v) ==
  IF v = "lb"
  THEN [status |-> Request("get_ticket_status_tool", StrInput(HexId), EmptyDict),
        kb |-> Request("search_kb_tool", NoInput, EmptyDict),
        unknown |-> Request("delete_ticket_tool", NoInput, EmptyDict)]
  ELSE [status |-> Request(McpName("get_ticket_status_tool"), NoInput,
                           [k \in {"ticket_id"} |-> HexId]),
        kb |-> Request(McpName("search_kb_tool"), NoInput, EmptyDict),
        unknown |-> Request("delete_ticket", NoInput, EmptyDict)]

\* the replies of the model: a final text, one tool call, two tool calls, a
\* call of a tool followed by a call of a tool that does not exist, and a
\* reply whose tool call is only in the raw content (additional_kwargs)
Replies(v) ==
  LET r == ToolRequests(v)
  IN  { AIMessage(<<"final answer">>, <<>>),
        AIMessage(<<"checking">>, <<r.status>>),
        AIMessage(<<"checking">>, <<r.kb, r.status>>),
        AIMessage(<<"checking">>, <<r.status, r.unknown>>),
        [AIMessage(<<"raw">>, <<>>) EXCEPT !.tool_use = <<r.status>>] }

\* normalize_anthropic_response(ai): take the tool calls from the raw
\* content when the message has none
normalize_anthropic_response(ai) ==
  IF ai.tool_calls # <<>> THEN ai
  ELSE IF ai.tool_use # <<>> THEN [ai EXCEPT !.tool_calls = ai.tool_use]
  ELSE ai

\* the payloads of the model: one text under one key
Texts ==
  { <<>>, <<" ">>,
    <<"there's a ", "gun", " in my house">>,
    <<" ", "GUN", " ">>,
    <<"Fire", " ", "in", " ", "my", " kitchen">>,
    <<"bon", "fire", " permit?">>,
    <<"status of ticket ", "6e63bbbe">> }

\* every text under prompt, an emergency and a question under the other keys
\* a payload as app.py sends it: the text under one key and the session
\* identifier next to it
WithSession(key, t, s) ==
  [k \in {key, "session_id"} |-> IF k = key THEN t ELSE s]

Payloads ==
  { [k \in {"prompt"} |-> t] : t \in Texts \ { <<"status of ticket ", "6e63bbbe">> } }
    \cup { [k \in {key} |-> <<"there's a ", "gun", " in my house">>] : key \in {"inputText", "message"} }
    \cup { WithSession("prompt", <<"status of ticket ", "6e63bbbe">>, <<"session-1">>) }
    \cup { WithSession(key, <<"status of ticket ", "6e63bbbe">>, <<"session-2">>) :
              key \in {"inputText", "message"} }

\* the answers of the token endpoint and the gateway in Spec
SmallNet ==
  [token |-> { TokenResponse(200, TRUE, <<"tok-B">>, "num", 120),
               TokenResponse(500, FALSE, <<>>, "absent", 0) },
   errors |-> { RateLimited, ServerError },
   contents |-> { << Item(<<"{", "ticket_id", "6e63bbbe", "status", "OPEN", "}">>, <<"TextContent(...)">>) >> },
   stages |-> {"call_tool"}]

callIdle ==
  /\ call' = NoCall
  /\ dpc' = "idle"
  /\ args' = EmptyDict
  /\ tok' = <<>>
  /\ attempt' = 0
  /\ delay' = 0
  /\ result' = NoResult

\* invoke(payload), up to graph.invoke
Invoke(p) ==
  /\ pc = "idle"
  /\ invocations < MaxInvocations
  /\ invocations' = invocations + 1
  /\ payload' = p
  /\ text' = UserInput(variant, p)
  /\ log' = <<>>
  /\ fetches' = <<>>
  /\ pending' = <<>>
  /\ outbox' = <<>>
  /\ IF variant = "lb" /\ text' = <<>>
     THEN /\ ret' = Returned(<<"Please provide a message.">>)
          /\ pc' = "done"
          /\ messages' = <<>>
     ELSE IF is_emergency(variant, text')
     THEN /\ ret' = Returned(EmergencyReply(variant))
          /\ pc' = "done"
          /\ messages' = <<>>
     ELSE /\ ret' = NoResult
          /\ pc' = IF graph = "none" THEN "build" ELSE "chatbot"
          /\ messages' = <<HumanMessage(text')>>
  /\ UNCHANGED <<clock, _token, _expiry, callVars, threads, net, procVars, variant>>

BuildEvents ==
  << Ev("session_open"), Ev("initialize"), Ev("list_tools"), Ev("session_close") >>

\* agentcore_311: graph = asyncio.run(build_graph()); the session the tools
\* are loaded from is closed when build_graph returns
BuildGraphOk ==
  /\ pc = "build"
  /\ graph' = "built"
  /\ _cached_tools' = TRUE
  /\ session' = "closed"
  /\ log' = log \o BuildEvents
  /\ pc' = "chatbot"
  /\ UNCHANGED <<tokenVars, callVars, threads, net, variant, payload, text, messages,
                 pending, outbox, ret, invocations>>

\* build_graph raises (the gateway cannot be reached, the tools do not load)
BuildGraphFails ==
  /\ pc = "build"
  /\ log' = log \o << Ev("session_open"), Ev("session_close") >>
  /\ ret' = Raised(ServerError)
  /\ pc' = "done"
  /\ UNCHANGED <<tokenVars, callVars, threads, net, procVars, variant, payload, text,
                 messages, pending, outbox, invocations>>

\* mutant: messages has no reducer, a node's return value replaces the list
add_messages_replace(left, right) == right

\* ChatState.messages: Annotated[List[BaseMessage], add_messages]: what a node
\* returns is appended to the list (the messages of the model carry new ids)
add_messages(left, right) == left \o right

\* mutant: the system prompt is not put before the messages
WithSystemPrompt_never(msgs) == msgs

\* chatbot: msgs = [SystemMessage(content=SYSTEM_PROMPT)] + msgs unless the
\* first message is a system message
WithSystemPrompt(msgs) ==
  IF msgs = <<>> \/ msgs[1].role # "system"
  THEN <<SystemMessage(SYSTEM_PROMPT)>> \o msgs ELSE msgs

\* the chatbot node and the router: the model is invoked on the messages,
\* with the system prompt put first, and its reply is appended; a reply with
\* tool calls goes to the tools node, any other ends the graph and invoke
\* returns the assistant text. The llm event records the list the model was
\* given: the role of its first message (name), its length (n) and the
\* number of system messages in it (status).
Chatbot ==
  /\ pc = "chatbot"
  /\ Len(EventsOfLog(log, {"llm"})) < MaxModelCalls
  /\ \E reply \in Replies(variant) :
       LET msgs == WithSystemPrompt(messages)
           ai == IF variant = "ac" THEN normalize_anthropic_response(reply) ELSE reply
       IN  /\ log' = Append(log, [Ev("llm") EXCEPT !.name = msgs[1].role, !.n = Len(msgs),
                                    !.status = Cardinality({ i \in 1..Len(msgs) : msgs[i].role = "system" })])
           /\ messages' = add_messages(messages, <<ai>>)
           /\ IF ai.tool_calls # <<>>
              THEN /\ pc' = "tools"
                   /\ pending' = ai.tool_calls
                   /\ UNCHANGED ret
              ELSE /\ pc' = "done"
                   /\ ret' = Returned(Output(variant, messages'))
                   /\ UNCHANGED pending
  /\ outbox' = <<>>
  /\ UNCHANGED <<tokenVars, callVars, threads, net, procVars, variant, payload, text,
                 invocations>>

\* ToolNode, langgraph_bedrock: the next tool call of the reply is run
\* (ToolNode runs every call of the reply; a name it does not know gives an
\* error message instead of a run)
ToolStart ==
  /\ pc = "tools" /\ variant = "lb"
  /\ dpc = "idle"
  /\ pending # <<>>
  /\ IF pending[1].alias \in ToolNames(variant)
     THEN /\ call' = pending[1]
          /\ dpc' = "called"
          /\ log' = Append(log, [Ev("dispatch") EXCEPT !.name = pending[1].alias])
          /\ UNCHANGED <<pending, outbox>>
     ELSE /\ outbox' = Append(outbox, ToolMessage(<<"Error: ", pending[1].alias, " is not a valid tool">>,
                                                  pending[1].alias))
          /\ pending' = Tail(pending)
          /\ UNCHANGED <<call, dpc, log>>
  /\ UNCHANGED <<tokenVars, args, tok, attempt, delay, result, threads, net, procVars,
                 variant, pc, payload, text, messages, ret, invocations>>

\* the tool returned: its text becomes a tool message
ToolReturns ==
  /\ pc = "tools"
  /\ dpc = "returned"
  /\ outbox' = Append(outbox, ToolMessage(result.text, call.alias))
  /\ pending' = Tail(pending)
  /\ callIdle
  /\ UNCHANGED <<tokenVars, log, threads, net, procVars, variant, pc, payload, text,
                 messages, ret, invocations>>

\* the tool raised and ToolNode handles the error: an error tool message
ToolErrorHandled ==
  /\ pc = "tools"
  /\ dpc = "raised"
  /\ outbox' = Append(outbox, ToolMessage(<<"Error: ", result.exc.type>>, call.alias))
  /\ pending' = Tail(pending)
  /\ callIdle
  /\ UNCHANGED <<tokenVars, log, threads, net, procVars, variant, pc, payload, text,
                 messages, ret, invocations>>

\* the tool raised and ToolNode re-raises: the exception leaves invoke
ToolErrorPropagates ==
  /\ pc = "tools"
  /\ dpc = "raised"
  /\ ret' = Raised(result.exc)
  /\ pc' = "done"
  /\ callIdle
  /\ UNCHANGED <<tokenVars, log, threads, net, procVars, variant, payload, text,
                 messages, pending, outbox, invocations>>

\* SafeToolNode.invoke, agentcore_311: a reply that names an unknown tool is
\* answered by a tool-not-found assistant message, and nothing is run
UnknownTool ==
  /\ pc = "tools" /\ variant = "ac"
  /\ \E i \in 1..Len(pending) : pending[i].alias \notin ToolNames(variant)
  /\ LET i == CHOOSE i \in 1..Len(pending) :
                /\ pending[i].alias \notin ToolNames(variant)
                /\ \A j \in 1..(i - 1) : pending[j].alias \in ToolNames(variant)
     IN  messages' = add_messages(messages,
            << AIMessage(<<"Tool not found: ", pending[i].alias, ". Please check tool configuration.">>, <<>>) >>)
  /\ pending' = <<>>
  /\ pc' = "chatbot"
  /\ UNCHANGED <<tokenVars, callVars, log, threads, net, procVars, variant, payload, text,
                 outbox, ret, invocations>>

\* agentcore_311: super().invoke runs the next tool call on the session the
\* tool was loaded from
AcToolEvent == [Ev("dispatch") EXCEPT !.name = pending[1].alias, !.args = pending[1].kwargs]

AcToolGuard ==
  /\ pc = "tools" /\ variant = "ac"
  /\ pending # <<>>
  /\ \A i \in 1..Len(pending) : pending[i].alias \in ToolNames(variant)

\* the session is closed, the call fails, ToolNode handles the error
AcToolErrorHandled ==
  /\ AcToolGuard
  /\ session = "closed"
  /\ log' = Append(log, AcToolEvent)
  /\ outbox' = Append(outbox, ToolMessage(<<"Error: ", "ToolCallError">>, pending[1].alias))
  /\ pending' = Tail(pending)
  /\ UNCHANGED <<tokenVars, callVars, threads, net, procVars, variant, pc, payload, text,
                 messages, ret, invocations>>

\* the session is closed, the call fails, ToolNode re-raises
AcToolErrorPropagates ==
  /\ AcToolGuard
  /\ session = "closed"
  /\ log' = Append(log, AcToolEvent)
  /\ ret' = Raised([type |-> "ToolCallError", status |-> 0, msg |-> <<>>])
  /\ pc' = "done"
  /\ UNCHANGED <<tokenVars, callVars, threads, net, procVars, variant, payload, text,
                 messages, pending, outbox, invocations>>
\* variant: the controller ends the turn after the first tool step
ToolsDone_ends ==
  /\ pc = "tools"
  /\ dpc = "idle"
  /\ pending = <<>>
  /\ messages' = add_messages(messages, outbox)
  /\ outbox' = <<>>
  /\ pc' = "done"
  /\ ret' = Returned(Output(variant, messages'))
  /\ UNCHANGED <<tokenVars, callVars, log, threads, net, procVars, variant, payload, text,
                 pending, invocations>>

\* the tools node is done: its messages are appended, on to the chatbot
ToolsDone ==
  /\ pc = "tools"
  /\ dpc = "idle"
  /\ pending = <<>>
  /\ messages' = add_messages(messages, outbox)
  /\ outbox' = <<>>
  /\ pc' = "chatbot"
  /\ UNCHANGED <<tokenVars, callVars, log, threads, net, procVars, variant, payload, text,
                 pending, ret, invocations>>

\* variant: the graph state outlives the invocation, as under a checkpointer
Return_checkpointed ==
  /\ pc = "done"
  /\ pc' = "idle"
  /\ payload' = EmptyDict
  /\ text' = <<>>
  /\ pending' = <<>>
  /\ outbox' = <<>>
  /\ ret' = NoResult
  /\ log' = <<>>
  /\ fetches' = <<>>
  /\ UNCHANGED <<clock, _token, _expiry, callVars, threads, net, procVars, variant, invocations,
                 messages>>

\* invoke has returned or raised: its locals are gone (payload, user_input,
\* out, messages), the module globals stay, the runtime awaits the next payload
Return ==
  /\ pc = "done"
  /\ pc' = "idle"
  /\ payload' = EmptyDict
  /\ text' = <<>>
  /\ messages' = <<>>
  /\ pending' = <<>>
  /\ outbox' = <<>>
  /\ ret' = NoResult
  /\ log' = <<>>
  /\ fetches' = <<>>
  /\ UNCHANGED <<clock, _token, _expiry, callVars, threads, net, procVars, variant, invocations>>

\* the process after import: langgraph_bedrock has built its graph,
\* agentcore_311 builds it on the first invocation
Init ==
  /\ clock = 0
  /\ _token = <<>>
  /\ _expiry = 0
  /\ fetches = <<>>
  /\ call = NoCall
  /\ dpc = "idle"
  /\ args = EmptyDict
  /\ tok = <<>>
  /\ attempt = 0
  /\ delay = 0
  /\ result = NoResult
  /\ log = <<>>
  /\ threads = NoThreads
  /\ net = SmallNet
  /\ variant \in {"lb", "ac"}
  /\ pc = "idle"
  /\ payload = EmptyDict
  /\ text = <<>>
  /\ messages = <<>>
  /\ pending = <<>>
  /\ outbox = <<>>
  /\ ret = NoResult
  /\ graph = IF variant = "lb" THEN "built" ELSE "none"
  /\ _cached_tools = FALSE
  /\ session = "none"
  /\ invocations = 0

Next ==
  \/ \E p \in Payloads : Invoke(p)
  \/ BuildGraphOk
  \/ BuildGraphFails
  \/ Chatbot
  \/ ToolStart
  \/ CallNormalize
  \/ CallFetchToken
  \/ CallAttemptOk
  \/ CallAttemptFails
  \/ CallSleep
  \/ ToolReturns
  \/ ToolErrorHandled
  \/ ToolErrorPropagates
  \/ UnknownTool
  \/ AcToolErrorHandled
  \/ AcToolErrorPropagates
  \/ ToolsDone
  \/ Return

Spec == Init /\ [][Next]_vars

(***************************************************************************)
(* Properties of a turn (checked under Spec)                               *)
(***************************************************************************)
\* the user text of a payload, as sent: prompt, else inputText
\* (langgraph_bedrock) or message (agentcore_311)
SentText(v, p) ==
  FirstTruthy(p, "prompt", IF v = "lb" THEN "inputText" ELSE "message")

\* the text matches the program's emergency pattern, whatever its case
MatchesEmergency(v, t) ==
  \E pat \in EmergencyPattern(v) : Contains(Lower(t), pat)

\* C1: an invoke whose user text matches the emergency pattern returns the
\* fixed safety string in its one step: the model is not invoked, no tool is
\* dispatched, no token is fetched, no session is opened (the log and
\* the fetches of the invocation are empty), and the token cache, the graph and the cached tool
\* list are left as they were.
C1_EmergencyShortCircuit ==
  [][ (pc = "idle" /\ pc' # "idle" /\ MatchesEmergency(variant, SentText(variant, payload'))) =>
        /\ pc' = "done"
        /\ ret' = Returned(IF variant = "lb" THEN <<"Call 911 now.">>
                           ELSE <<"This sounds like an emergency. Please call 911 immediately.">>)
        /\ log' = <<>>
        /\ messages' = <<>>
        /\ dpc' = "idle"
        /\ fetches' = <<>>
        /\ UNCHANGED <<_token, _expiry, graph, _cached_tools, session>> ]_vars

\* agentcore_311 answered an upper-case emergency before it ever built its graph
C1_Witness ==
  /\ variant = "ac"
  /\ pc = "done"
  /\ payload = [k \in {"prompt"} |-> <<" ", "GUN", " ">>]
  /\ ret = Returned(<<"This sounds like an emergency. Please call 911 immediately.">>)
  /\ graph = "none"
  /\ log = <<>>

\* C2: between any two tool dispatches of a turn the model is invoked.
C2_OneToolCallPerModelTurn ==
  \A i, j \in 1..Len(log) :
     (i < j /\ log[i].e = "dispatch" /\ log[j].e = "dispatch") =>
        \E k \in (i + 1)..(j - 1) : log[k].e = "llm"

(***************************************************************************)
(* Properties of one tool dispatch (checked under SpecDispatch)            *)
(***************************************************************************)
Range(seq) == { seq[i] : i \in 1..Len(seq) }

EventsOf(kinds) == EventsOfLog(log, kinds)

\* the _call has merged, aliased and validated its args
Normalized == dpc # "called"

\* the required fields that are absent or empty in the normalized args
MissingSet == { k \in Range(Required(call.alias)) : ~Has(args, k) \/ args[k] = <<>> }

AllFieldNames == UNION { KeysOf(a) : a \in ToolAliases }

\* the field names a text names
NamedFields(t) == Range(t) \cap AllFieldNames

\* C3: a dispatch of any of the four tools in which a required field is
\* absent or empty after merging and aliasing has returned, and neither
\* fetch_token nor the gateway was called.
C3_NoNetworkOnMissingField ==
  (Normalized /\ MissingSet # {}) =>
     /\ dpc = "returned"
     /\ result.kind = "text"
     /\ fetches = <<>>
     /\ log = <<>>

\* a send_email dispatch returned early because a supplied field is empty
C3_Witness ==
  /\ dpc = "returned"
  /\ call.alias = "send_email_tool"
  /\ Has(args, "status") /\ args["status"] = <<>>
  /\ MissingSet = {"status"}

\* C4 as claimed: for every dispatch of any of the four tools that misses a
\* required field, the returned text names exactly the missing required fields.
C4_NamesExactlyMissing_AllTools ==
  (Normalized /\ MissingSet # {}) =>
     /\ result.kind = "text"
     /\ NamedFields(result.text) = MissingSet

\* C4 amended: the text returned by create-ticket and send-email names exactly
\* the missing required fields; the text returned by get-ticket-status and
\* search-kb is a fixed prompt that names no field.
C4_NamesExactlyMissing ==
  (Normalized /\ MissingSet # {}) =>
     /\ result.kind = "text"
     /\ IF call.alias \in {"create_ticket_tool", "send_email_tool"}
        THEN NamedFields(result.text) = MissingSet
        ELSE NamedFields(result.text) = {}

\* a create_ticket dispatch that misses two fields and was given two
C4_Witness ==
  /\ dpc = "returned"
  /\ call.alias = "create_ticket_tool"
  /\ MissingSet = {"description", "contact_email"}
  /\ result.text = <<"To create a ticket I still need: ", "description", ", ", "contact_email", ".">>

CreateTicketFields == {"category", "description", "address", "contact_email"}

\* C5: every gateway call made for create_ticket carries category,
\* description, address and contact_email, each with a non-empty value.
C5_CreateTicketCallsComplete ==
  \A i \in 1..Len(log) :
     (log[i].e = "call_tool" /\ log[i].name = McpName("create_ticket_tool")) =>
        \A k \in CreateTicketFields : Has(log[i].args, k) /\ log[i].args[k] # <<>>

\* create_ticket reached the gateway with address and contact_email given
\* under their aliases
C5_Witness ==
  /\ call.alias = "create_ticket_tool"
  /\ ~Has(call.kwargs, "address") /\ Has(call.kwargs, "location")
  /\ ~Has(call.kwargs, "contact_email") /\ Has(call.kwargs, "email")
  /\ \E i \in 1..Len(log) : log[i].e = "call_tool"

\* the failed attempts and the sleeps of call_tool, in order
Failures == EventsOf({"attempt_failed"})
Sleeps == EventsOf({"sleep"})

\* call_tool has raised and every attempt failed with a rate-limit signal
AlwaysRateLimited ==
  /\ dpc = "raised"
  /\ Failures # <<>>
  /\ \A i \in 1..Len(Failures) : Failures[i].status = 429

\* C6: a call_tool whose every attempt fails with a rate-limit signal fails
\* after exactly 4 attempts, sleeps before each retry with a strictly
\* increasing delay, and does not sleep after the last failed attempt.
C6_RetryBound ==
  AlwaysRateLimited =>
     /\ Len(EventsOf({"call_tool"})) = 4
     /\ Len(Failures) = 4
     /\ Len(Sleeps) = 3
     /\ \A i \in 1..(Len(Sleeps) - 1) : Sleeps[i].n < Sleeps[i + 1].n
     /\ LET steps == EventsOf({"attempt_failed", "sleep"})
        IN  /\ Len(steps) = 7
            /\ \A i \in 1..7 : steps[i].e = (IF i % 2 = 1 THEN "attempt_failed" ELSE "sleep")
     /\ log[Len(log)].e = "attempt_failed"

\* the call gave up after four rate-limited attempts, having slept 0.5 s, 1 s, 2 s
C6_Witness ==
  /\ AlwaysRateLimited
  /\ [i \in 1..Len(Sleeps) |-> Sleeps[i].n] = <<500, 1000, 2000>>

\* C7: a failure of an attempt that is not a rate-limit signal propagates at
\* once: call_tool has raised, with no sleep and no further attempt after it.
C7_OtherFailuresNotRetried ==
  \A i \in 1..Len(log) :
     (log[i].e = "attempt_failed" /\ log[i].status # 429) =>
        /\ dpc = "raised"
        /\ i = Len(log)

\* C8: no exception leaves _call: a dispatch whose token fetch or gateway
\* call failed has returned a text.
C8_FailuresReturnText ==
  /\ dpc # "raised"
  /\ result.kind # "raise"

(***************************************************************************)
(* Properties of the token cache                                           *)
(***************************************************************************)
\* the threads whose token request is in flight
InFlight == { t \in DOMAIN threads : threads[t].pc = "posting" }

\* C9: refreshes are serialized: at most one token request is in flight at any
\* time, and threads that enter fetch_token while the cache is empty or
\* expired make one request in total and obtain the same token.
C9_RefreshSerialized ==
  /\ Cardinality(InFlight) <= 1
  /\ \A t, u \in DOMAIN threads :
        (threads[t].pc = "returned" /\ threads[u].pc = "returned" /\ threads[t].now = threads[u].now)
          => /\ threads[t].token = threads[u].token
             /\ Len(EventsOf({"token_post"})) <= 1

\* expiresAt of the token a fetch obtained: now + expires_in
ExpiresAt(f) ==
  f.now + (IF f.resp.exp_kind = "absent" THEN DefaultExpiresIn ELSE f.resp.expires_in)

\* C10: of two sequential fetch_token calls, the first of which obtained a
\* token from the endpoint and the second of which starts while
\* now < expiresAt - 60 of that token, only the first makes a request, and
\* both return the same token.
C10_CredentialReuse ==
  \A i \in 1..(Len(fetches) - 1) :
     (/\ fetches[i].posted
      /\ fetches[i].ok
      /\ fetches[i + 1].now < ExpiresAt(fetches[i]) - 60) =>
        /\ ~fetches[i + 1].posted
        /\ fetches[i + 1].ok
        /\ fetches[i + 1].token = fetches[i].token

\* a token good for 120 s was fetched and reused 30 s later
C10_Witness ==
  /\ Len(fetches) >= 2
  /\ fetches[1].posted /\ fetches[1].ok
  /\ ExpiresAt(fetches[1]) = fetches[1].now + 120
  /\ fetches[2].now = fetches[1].now + 30
  /\ ~fetches[2].posted

\* C11: fetch_token returns the cached token without a request exactly when a
\* token is cached and now < _expiry - 60; otherwise it makes one request,
\* and the answer's access_token is stored with an expiry of now + expires_in
\* (3600 when the body has no expires_in), now being the time the call read
\* when it started, however much time has passed since.
C11_CacheHitIffValid ==
  [][ \A t \in DOMAIN threads :
        /\ (threads[t].pc = "idle" /\ threads'[t].pc # "idle") =>
             IF _token # <<>> /\ clock < _expiry - 60
             THEN /\ threads'[t].pc = "returned"
                  /\ threads'[t].token = _token
                  /\ log' = log
                  /\ UNCHANGED <<_token, _expiry>>
             ELSE /\ threads'[t].pc = "posting"
                  /\ threads'[t].now = clock
                  /\ log' = Append(log, [Ev("token_post") EXCEPT !.n = t])
                  /\ UNCHANGED <<_token, _expiry>>
        /\ (threads[t].pc = "posting" /\ threads'[t].pc = "returned") =>
             /\ log' = log
             /\ \E resp \in net.token :
                  /\ resp.status = 200 /\ resp.has_token /\ resp.exp_kind # "bad"
                  /\ threads'[t].token = resp.token
                  /\ _token' = resp.token
                  /\ _expiry' = threads[t].now
                       + (IF resp.exp_kind = "num" THEN resp.expires_in ELSE 3600) ]_vars

\* a call that started at 0 got its answer after 30 s and stored tok-B with
\* the expiry 0 + 120; a call at 30 was served from the cache
C11_Witness ==
  /\ clock = 30
  /\ \E t, u \in DOMAIN threads :
       /\ threads[t] = [pc |-> "returned", now |-> 0, token |-> <<"tok-B">>]
       /\ threads[u] = [pc |-> "returned", now |-> 30, token |-> <<"tok-B">>]
  /\ _token = <<"tok-B">>
  /\ _expiry = 120
  /\ Len(EventsOf({"token_post"})) = 1

\* the fetch_token calls of the run that asked the endpoint
Posted == { i \in 1..Len(fetches) : fetches[i].posted }

\* C12 as stated: a request answered by an error status, by a body without
\* access_token, or by a body whose expires_in is absent or not a number
\* makes fetch_token fail, and no token is returned.
C12_MalformedBodyFails_ExpiresInRequired ==
  \A i \in Posted :
     (\/ fetches[i].resp.status >= 400
      \/ ~fetches[i].resp.has_token
      \/ fetches[i].resp.exp_kind # "num") =>
        /\ ~fetches[i].ok
        /\ fetches[i].token = <<>>

\* C12, amended: a request answered by an error status, by a body without
\* access_token, or by a body whose expires_in is not a number makes
\* fetch_token fail, and no token is returned; a body with an access_token
\* and no expires_in is accepted: its token is returned and cached for 3600 s.
C12_MalformedBodyFails ==
  \A i \in Posted :
     /\ (\/ fetches[i].resp.status >= 400
         \/ ~fetches[i].resp.has_token
         \/ fetches[i].resp.exp_kind = "bad") =>
           /\ ~fetches[i].ok
           /\ fetches[i].token = <<>>
     /\ (/\ fetches[i].resp.status = 200
         /\ fetches[i].resp.has_token
         /\ fetches[i].resp.exp_kind = "absent") =>
           /\ fetches[i].ok
           /\ fetches[i].token = fetches[i].resp.token
           /\ fetches[i].cached = <<fetches[i].resp.token, fetches[i].now + 3600>>

\* one request was answered with a text for expires_in and failed, the next
\* with no expires_in and gave a token
C12_Witness ==
  /\ Len(fetches) >= 2
  /\ fetches[1].posted /\ fetches[1].resp.exp_kind = "bad" /\ ~fetches[1].ok
  /\ fetches[2].posted /\ fetches[2].resp.exp_kind = "absent" /\ fetches[2].ok
  /\ fetches[2].resp.status = 200

(***************************************************************************)
(* Properties of the conversation history (checked under Spec)             *)
(***************************************************************************)
\* the positions of the assistant messages that carry a tool-call request
ToolCallReplies == { i \in 1..Len(messages) : messages[i].role = "ai" /\ messages[i].tool_calls # <<>> }

\* the turn ended on a reply of the model without a tool-call request
EndedOnTerminalReply ==
  /\ pc = "done"
  /\ ret.kind = "text"
  /\ messages # <<>>
  /\ messages[Len(messages)].role = "ai"
  /\ messages[Len(messages)].tool_calls = <<>>

\* C13: when the model first requested a tool and the turn ended on a reply
\* without a tool call, invoke returns the content of that last reply.
C13_OutputIsTerminalReply ==
  (EndedOnTerminalReply /\ ToolCallReplies # {}) =>
     ret.text = messages[Len(messages)].content

\* the tool names a message requests that the program's tools node does not know
UnknownNames(m) ==
  { m.tool_calls[i].alias : i \in 1..Len(m.tool_calls) } \ ToolNames(variant)

\* the events of a log in which a tool is run or the network is used
Dispatched(l) ==
  EventsOfLog(l, {"dispatch", "token_post", "session_open", "call_tool"})

\* C14: while the tools node handles a reply that requests an unknown tool,
\* nothing is dispatched (no tool of the reply is run, no token fetched, no
\* gateway call made), and the node leaves behind a message that names the
\* unknown tool.
C14_UnknownToolNothingDispatched ==
  [][ (pc = "tools" /\ UnknownNames(messages[Len(messages)]) # {}) =>
        /\ Dispatched(log') = Dispatched(log)
        /\ dpc' = "idle"
        /\ pc' # "tools" =>
             \E j \in (Len(messages) + 1)..Len(messages') :
                \E n \in UnknownNames(messages[Len(messages)]) :
                   Contains(messages'[j].content, <<n>>) ]_vars

\* a message that tells that a requested tool does not exist: the assistant
\* message of SafeToolNode, the error tool message of ToolNode
NotFoundMessage(m) ==
  \/ m.role = "ai" /\ Len(m.content) = 3 /\ m.content[1] = "Tool not found: "
  \/ m.role = "tool" /\ Len(m.content) = 3 /\ m.content[3] = " is not a valid tool"

\* the tool-not-found message has been produced in this turn
NotFoundProduced ==
  \E i \in 1..Len(messages \o outbox) : NotFoundMessage((messages \o outbox)[i])

\* C15: once the tool-not-found message is produced, the turn invokes the
\* model no more and dispatches no further tool call.
C15_UnknownToolIsTerminal ==
  [][ (NotFoundProduced /\ pc' # "idle") =>
        EventsOfLog(log', {"llm", "dispatch"}) = EventsOfLog(log, {"llm", "dispatch"}) ]_vars

\* the payload carries no user text: the key is missing, or its text is
\* empty or only blanks
EmptyInput(v, p) == Strip(SentText(v, p)) = <<>>

\* C16: an invoke whose user input is empty returns the prompt-for-input
\* message in its one step: the model is not consulted, the graph is not
\* built and no tool is dispatched.
C16_EmptyInputPrompts ==
  [][ (pc = "idle" /\ pc' # "idle" /\ EmptyInput(variant, payload')) =>
        /\ pc' = "done"
        /\ ret' = Returned(<<"Please provide a message.">>)
        /\ log' = <<>>
        /\ messages' = <<>>
        /\ dpc' = "idle"
        /\ UNCHANGED <<graph, _cached_tools, session>> ]_vars

\* the positions of the system messages of a list
SystemMessages(msgs) == { i \in 1..Len(msgs) : msgs[i].role = "system" }

\* C17 as stated: after a pass of the model step the history held in the
\* state holds exactly one system message, and it is the first message.
C17_HistoryHoldsSystemMessage ==
  (pc \in {"tools", "chatbot", "done"} /\ EventsOf({"llm"}) # <<>>) =>
     /\ Cardinality(SystemMessages(messages)) = 1
     /\ messages[1].role = "system"

\* C17, amended: every pass of the model step gives the model the history
\* with one system message put before it (exactly one system message, and
\* it is first); the history held in the state is not given that message:
\* it gains the reply of the model and holds no system message.
C17_ModelSeesOneSystemMessageFirst ==
  [][ Len(EventsOfLog(log', {"llm"})) > Len(EventsOfLog(log, {"llm"})) =>
        /\ log'[Len(log')].e = "llm"
        /\ log'[Len(log')].name = "system"
        /\ log'[Len(log')].status = 1
        /\ log'[Len(log')].n = Len(messages) + 1
        /\ Len(messages') = Len(messages) + 1
        /\ SystemMessages(messages') = {} ]_vars

\* the second pass of a turn: the model was given the system message and a
\* history of at least user message, reply and tool message
C17_Witness ==
  /\ Len(EventsOf({"llm"})) = 2
  /\ log[Len(log)].e = "llm"
  /\ log[Len(log)].n >= 4
  /\ log[Len(log)].name = "system"
  /\ \E i \in 1..Len(messages) : messages[i].role = "tool"
  /\ messages[1].role = "user"

\* the position of the last model invocation in a log (0 when there is none)
LastLlm(l) ==
  IF \E i \in 1..Len(l) : l[i].e = "llm"
  THEN CHOOSE i \in 1..Len(l) : l[i].e = "llm" /\ \A j \in (i + 1)..Len(l) : l[j].e # "llm"
  ELSE 0

\* the tool dispatches made for the latest reply of the model
DispatchesOfReply(l) == EventsOfLog(SubSeq(l, LastLlm(l) + 1, Len(l)), {"dispatch"})

\* C18: when the tools node is left, every tool call of the reply (all of
\* them known tools) was dispatched exactly once, in order, failed or not;
\* each has its tool-role message appended to the history, in order; no
\* exception leaves the turn, and control is back at the model step.
C18_DispatchOnceThenToolMessage ==
  [][ (pc = "tools" /\ pc' # "tools" /\ UnknownNames(messages[Len(messages)]) = {}) =>
        LET calls == messages[Len(messages)].tool_calls
            d == DispatchesOfReply(log')
        IN  /\ pc' = "chatbot"
            /\ ret'.kind # "raise"
            /\ Len(d) = Len(calls)
            /\ \A k \in 1..Len(d) : d[k].name = calls[k].alias
            /\ Len(messages') = Len(messages) + Len(calls)
            /\ \A k \in 1..Len(calls) :
                  /\ messages'[Len(messages) + k].role = "tool"
                  /\ messages'[Len(messages) + k].name = calls[k].alias ]_vars

\* C19: within a turn every step leaves the messages of the history as they
\* are and in their order, and adds messages only at its end.
C19_HistoryAppendOnly ==
  [][ (pc # "idle" /\ pc' # "idle") =>
        /\ Len(messages') >= Len(messages)
        /\ SubSeq(messages', 1, Len(messages)) = messages ]_vars

\* a turn that ended with user message, tool-call reply, tool message and
\* final reply in the history
C19_Witness ==
  /\ pc = "done"
  /\ Len(messages) = 4
  /\ messages[1].role = "user"
  /\ messages[2].role = "ai" /\ messages[2].tool_calls # <<>>
  /\ messages[3].role = "tool"
  /\ messages[4].role = "ai" /\ messages[4].tool_calls = <<>>

(***************************************************************************)
(* The response formatters on every structured result: SpecFormat          *)
(***************************************************************************)
\* the fields a structured result of each tool may carry
ResultFields(alias) ==
  CASE alias = "create_ticket_tool" -> {"ticket_id", "status", "eta_days"}
    [] alias = "get_ticket_status_tool" ->
         {"ticket_id", "status", "ticket_status", "dept", "department", "category",
          "updated_at", "eta_days"}
    [] alias = "search_kb_tool" -> {"answer", "source", "error"}
    [] alias = "send_email_tool" -> {"message"}

\* the value a result carries under the key k
ResultVal(k) == <<"val", k>>

\* the most fields of a result that carry an empty value
MaxEmptyFields == 1

\* every result over some of the fields, each value empty or the key's value
ResultsOf(alias) ==
  UNION { { [k \in S |-> IF k \in T THEN <<>> ELSE ResultVal(k)]
              : T \in { U \in SUBSET S : Cardinality(U) <= MaxEmptyFields } }
          : S \in SUBSET ResultFields(alias) }

\* format_xxx(data) is called on the parsed body
Format ==
  /\ dpc = "format"
  /\ result' = Returned(FormatBody(call.alias, args))
  /\ dpc' = "returned"
  /\ UNCHANGED <<tokenVars, call, args, tok, attempt, delay, log, threads, net, procVars,
                 turnVars>>

\* the raw texts call_tool may hand to the tail of _call
RawResults ==
  { <<>>,
    <<"Ticket", " ", "created">>,
    <<"[", "1", "]">>,
    <<"{", "ticket_id">>,
    <<"{", "}">>,
    <<"{", "ticket_id", "6e63bbbe", "status", "OPEN", "}">>,
    <<" ", "{", "answer", "yes", "source", "kb", "}", "\n">>,
    <<"{", "message", "sent", "}">>,
    <<"{", "foo", "bar", "}">> }

\* the contents (resp.content) a session may answer: those of Responses, items
\* without text only, and two text items
RunContents ==
  Responses \cup
    { << Item(<<>>, <<"ImageContent(...)">>) >>,
      << Item(<<"line one">>, <<"TextContent(...)">>),
         Item(<<"line two">>, <<"TextContent(...)">>) >> }

\* _run on the content the session answers: the text call_tool returns
CallToolRun ==
  /\ dpc = "run"
  /\ \E content \in net.contents : result' = Returned(RunResult(content))
  /\ dpc' = "raw"
  /\ UNCHANGED <<tokenVars, call, args, tok, attempt, delay, log, threads, net, procVars,
                 turnVars>>

\* the tail of _call on the raw text: the parsed body is kept in args
FormatRaw ==
  /\ dpc = "raw"
  /\ args' = (IF JsonWellFormed(result.text) THEN JsonLoads(result.text) ELSE EmptyDict)
  /\ result' = Returned(FormatReturn(call.alias, result.text))
  /\ dpc' = "replied"
  /\ UNCHANGED <<tokenVars, call, tok, attempt, delay, log, threads, net, procVars,
                 turnVars>>

InitFormat ==
  /\ clock = 0
  /\ _token = <<>>
  /\ _expiry = 0
  /\ fetches = <<>>
  /\ \E a \in ToolAliases : call = [NoCall EXCEPT !.alias = a]
  /\ \/ /\ dpc = "format"
        /\ args \in ResultsOf(call.alias)
        /\ result = NoResult
     \/ /\ dpc = "raw"
        /\ args = EmptyDict
        /\ result \in { Returned(r) : r \in RawResults }
     \/ /\ dpc = "run"
        /\ args = EmptyDict
        /\ result = NoResult
  /\ tok = <<>>
  /\ attempt = 0
  /\ delay = 0
  /\ log = <<>>
  /\ threads = NoThreads
  /\ IF dpc = "run"
     THEN \E c \in RunContents : net = [FullNet EXCEPT !.contents = {c}]
     ELSE net = FullNet
  /\ NoTurn

NextFormat == Format \/ CallToolRun \/ FormatRaw

SpecFormat == InitFormat /\ [][NextFormat]_vars

(***************************************************************************)
(* Properties of the response formatters (checked under SpecFormat)        *)
(***************************************************************************)
\* a labeled line: its label and the fields of the result it shows
Line(label, keys) == [label |-> label, keys |-> keys]

\* the labeled lines of each tool kind, in their order
LinesOf(alias) ==
  CASE alias = "create_ticket_tool" ->
         << Line("- Ticket ID: ", {"ticket_id"}), Line("- Status: ", {"status"}),
            Line("- ETA: ", {"eta_days"}) >>
    [] alias = "get_ticket_status_tool" ->
         << Line("- Ticket ID: ", {"ticket_id"}), Line("- Status: ", {"status", "ticket_status"}),
            Line("- Department: ", {"dept", "department"}), Line("- Category: ", {"category"}),
            Line("- Last Updated: ", {"updated_at"}), Line("- ETA: ", {"eta_days"}) >>
    [] alias = "search_kb_tool" -> << Line("- Source: ", {"source"}) >>
    [] alias = "send_email_tool" -> << >>

Labels(alias) == { LinesOf(alias)[i].label : i \in 1..Len(LinesOf(alias)) }

\* the labels a text shows, in the order it shows them
LabelsIn(alias, t) == SelectSeq(t, LAMBDA c : c \in Labels(alias))

\* what a text shows after a label, up to the end of the line
ValueAfter(t, label) ==
  LET i == CHOOSE i \in 1..Len(t) : t[i] = label
      ends == { j \in (i + 1)..Len(t) : t[j] \in {"\n", " day(s)"} }
      j == IF ends = {} THEN Len(t) + 1 ELSE CHOOSE j \in ends : \A k \in ends : j <= k
  IN  SubSeq(t, i + 1, j - 1)

\* a formatter has run on the result in args
Formatted == dpc = "returned" /\ result.kind = "text"

\* C20 as stated: the labels come in the fixed order, and the line of a field
\* that the result does not carry (under any of its names) is omitted: no
\* line shows a placeholder.
C20_AbsentFieldsOmitted ==
  Formatted =>
    LET lines == LinesOf(call.alias)
        shown == LabelsIn(call.alias, result.text)
    IN  /\ shown = SelectSeq([i \in 1..Len(lines) |-> lines[i].label],
                             LAMBDA l : \E i \in 1..Len(shown) : shown[i] = l)
        /\ \A i \in 1..Len(lines) :
              (lines[i].keys \cap DOMAIN args = {}) =>
                 \A j \in 1..Len(shown) : shown[j] # lines[i].label
        /\ ~Contains(result.text, <<"N/A">>)

\* C20, amended: the labels come in the fixed order. The create-ticket and
\* ticket-status formatters always emit every labeled line: a line whose
\* field the result does not carry shows the placeholder N/A, a line whose
\* field the result carries with a non-empty value shows such a value, and
\* every line shows either N/A or a value the result carries under one of
\* the line's names. Only the source line of search-kb is omitted, when the
\* result has no answer or no source.
C20_AbsentFieldsShowPlaceholder ==
  Formatted =>
    LET lines == LinesOf(call.alias)
        shown == LabelsIn(call.alias, result.text)
    IN  IF call.alias \in {"create_ticket_tool", "get_ticket_status_tool"}
        THEN /\ shown = [i \in 1..Len(lines) |-> lines[i].label]
             /\ \A i \in 1..Len(lines) :
                   LET v == ValueAfter(result.text, lines[i].label)
                       carried == lines[i].keys \cap DOMAIN args
                   IN  /\ carried = {} => v = <<"N/A">>
                       /\ v = <<"N/A">> \/ \E k \in carried : v = args[k]
                       /\ (\E k \in carried : args[k] # <<>>) =>
                             \E k \in carried : args[k] # <<>> /\ v = args[k]
        ELSE /\ (shown # <<>>) <=> (call.alias = "search_kb_tool" /\ ~Falsy(args, "answer")
                                     /\ ~Falsy(args, "source"))
             /\ shown # <<>> => ValueAfter(result.text, "- Source: ") = args["source"]
             /\ ~Contains(result.text, <<"N/A">>)

\* a created ticket whose result carries only the ticket id: the status and
\* the ETA lines show N/A
C20_Witness ==
  /\ Formatted
  /\ call.alias = "create_ticket_tool"
  /\ args = [k \in {"ticket_id"} |-> ResultVal(k)]
  /\ ValueAfter(result.text, "- Ticket ID: ") = ResultVal("ticket_id")
  /\ ValueAfter(result.text, "- Status: ") = <<"N/A">>
  /\ ValueAfter(result.text, "- ETA: ") = <<"N/A">>


(***************************************************************************)
(* Properties of the tail of _call (checked under SpecFormat)              *)
(***************************************************************************)
\* json.loads is tried on the raw text and succeeds
Parses(raw) == Strip(raw) # <<>> /\ Strip(raw)[1] = "{" /\ JsonWellFormed(raw)

\* the raw text parses to an object with none of the fields its tool reads
NoRecognizedField(alias, raw) ==
  Parses(raw) /\ DOMAIN JsonLoads(raw) \cap ResultFields(alias) = {}

\* what each formatter prints for an object with none of its fields
Placeholder(alias) ==
  CASE alias = "create_ticket_tool" ->
         <<"Ticket Created", "\n", "- Ticket ID: ", "N/A", "\n", "- Status: ", "N/A",
           "\n", "- ETA: ", "N/A", " day(s)">>
    [] alias = "get_ticket_status_tool" ->
         <<"Ticket Status", "\n", "- Ticket ID: ", "N/A", "\n", "- Status: ", "N/A",
           "\n", "- Department: ", "N/A", "\n", "- Category: ", "N/A",
           "\n", "- Last Updated: ", "N/A", "\n", "- ETA: ", "N/A", " day(s)">>
    [] alias = "search_kb_tool" -> <<"No answer found in the knowledge base.">>
    [] alias = "send_email_tool" -> <<"[mail] Email request processed.">>

\* C21 as stated: a raw result that cannot be parsed, or whose parsed object
\* has none of the recognized fields of the tool, is returned unchanged.
C21_RawUnlessRecognized ==
  [][ (dpc = "raw" /\ (~Parses(result.text) \/ NoRecognizedField(call.alias, result.text)))
        => result' = result ]_vars

\* C21, amended: a raw result that cannot be parsed as a JSON object, or that
\* parses to the empty object, is returned unchanged. A non-empty object is
\* always formatted: with none of the recognized fields of its tool the
\* dispatch returns the formatter's placeholder text (every line N/A for
\* create-ticket and ticket-status, "No answer found in the knowledge base."
\* for search-kb, "Email request processed." for send-email), not the raw text.
C21_RawUnlessNonEmptyObject ==
  [][ dpc = "raw" =>
        LET raw == result.text
        IN  /\ (~Parses(raw) \/ JsonLoads(raw) = EmptyDict) => result' = result
            /\ (NoRecognizedField(call.alias, raw) /\ JsonLoads(raw) # EmptyDict)
                 => result' = Returned(Placeholder(call.alias)) ]_vars

\* the object {"foo": "bar"} came back for a knowledge-base search, and the
\* dispatch answered with the placeholder
C21_Witness ==
  /\ dpc = "replied"
  /\ call.alias = "search_kb_tool"
  /\ args = [k \in {"foo"} |-> <<"bar">>]
  /\ result = Returned(<<"No answer found in the knowledge base.">>)

\* a text that does not parse came back, and the dispatch returned it
C21_WitnessRaw ==
  /\ dpc = "replied"
  /\ args = EmptyDict
  /\ result = Returned(<<"{", "ticket_id">>)

(***************************************************************************)
(* Properties of the argument normalizer (checked under SpecDispatch)      *)
(***************************************************************************)
\* the keys the aliases of a tool read or write
AliasKeys(alias) ==
  CASE alias = "create_ticket_tool" -> {"location", "address", "email", "contact_email"}
    [] alias = "get_ticket_status_tool" -> {"id", "ticket_id"}
    [] alias = "search_kb_tool" -> {}
    [] alias = "send_email_tool" ->
         {"email", "contact_email", "to_email", "ticket_status", "status"}

\* C22: when a positional mapping and keyword arguments are merged, a key of
\* both holds the keyword value and a key of only one keeps its value; seen
\* in the normalized arguments on every key the aliases of the tool leave
\* alone (all keys of search-kb), and no other such key appears.
C22_KeywordsTakePrecedence ==
  (Normalized /\ call.input.kind = "dict") =>
    LET d == call.input.d
        kw == call.kwargs
        merged == (DOMAIN d \cup DOMAIN kw) \ AliasKeys(call.alias)
    IN  /\ DOMAIN args \ AliasKeys(call.alias) = merged
        /\ \A k \in merged : args[k] = IF k \in DOMAIN kw THEN kw[k] ELSE d[k]

\* a knowledge-base search got ticket_id in both the positional mapping and
\* the keyword arguments, and a query only by keyword: the keyword values
\* are in the normalized arguments
C22_Witness ==
  /\ Normalized
  /\ call.alias = "search_kb_tool"
  /\ call.input = DictInput([k \in {"ticket_id"} |-> PosVal(k)])
  /\ call.kwargs = [k \in {"ticket_id", "query"} |-> KwVal(k)]
  /\ args = [k \in {"ticket_id", "query"} |-> KwVal(k)]

\* a key of the positional mapping alone is kept with the positional value
C22_WitnessPositionalOnly ==
  /\ Normalized
  /\ call.alias = "search_kb_tool"
  /\ call.input = DictInput([k \in {"category", "location"} |-> PosVal(k)])
  /\ call.kwargs = [k \in {"query"} |-> KwVal(k)]
  /\ args["category"] = PosVal("category")
  /\ args["location"] = PosVal("location")
  /\ args["query"] = KwVal("query")

Digits == { "0", "1", "2", "3", "4", "5", "6", "7", "8", "9" }

Letters ==
  { "a", "b", "c", "d", "e", "f", "g", "h", "i", "j", "k", "l", "m",
    "n", "o", "p", "q", "r", "s", "t", "u", "v", "w", "x", "y", "z" }

\* a token-like string as the claim words it: 6 to 64 hex or alphanumeric characters
TokenLikeAlnum(v) ==
  /\ Len(v) \in 6..64
  /\ \A i \in 1..Len(v) : v[i] \in Digits \cup Letters

\* a string of 6 to 64 characters, each a hex digit or a hyphen
TokenLikeHex(v) ==
  /\ Len(v) \in 6..64
  /\ \A i \in 1..Len(v) : v[i] \in Digits \cup {"a", "b", "c", "d", "e", "f", "A", "B", "C", "D", "E", "F", "-"}

\* the keyword arguments carry one of the keys that stop the binding
HoldsBindingKey(kw) == \E k \in {"ticket_id", "query", "category"} : Has(kw, k)

\* the dispatch got a single positional string
PositionalString == Normalized /\ call.input.kind = "str"

C23_WitnessKeyed ==
  /\ PositionalString
  /\ call.alias = "search_kb_tool"
  /\ call.input.s = HexId
  /\ call.kwargs = [k \in {"query"} |-> KwVal(k)]
  /\ ~Has(args, "ticket_id")
  /\ args["query"] = KwVal("query")

\* the aliases of a tool: the name a value is supplied under, the canonical name
AliasPairs(alias) ==
  CASE alias = "create_ticket_tool" ->
         { <<"location", "address">>, <<"email", "contact_email">> }
    [] alias = "get_ticket_status_tool" -> { <<"id", "ticket_id">> }
    [] alias = "search_kb_tool" -> {}
    [] alias = "send_email_tool" ->
         { <<"email", "to_email">>, <<"contact_email", "to_email">>,
           <<"ticket_status", "status">> }

\* the arguments after the merge, before the aliases
Merged == merge_and_normalize_args(call.input, call.kwargs)

\* the arguments of every gateway call of the dispatch
SentArgs == { ev.args : ev \in Range(EventsOf({"call_tool"})) }

\* C24 as stated: in the arguments sent to the gateway, a value supplied
\* under an alias appears under its canonical name and the alias key is not sent.
C24_AliasesAlwaysApplied ==
  \A sent \in SentArgs : \A p \in AliasPairs(call.alias) :
     Has(Merged, p[1]) =>
        /\ Has(sent, p[2])
        /\ sent[p[2]] = Merged[p[1]]
        /\ ~Has(sent, p[1])

\* the alias p is applied to the merged arguments m: the canonical name is not
\* already there, and for contact_email of send-email neither is email
AliasApplies(alias, m, p) ==
  /\ ~Has(m, p[2])
  /\ ~(alias = "send_email_tool" /\ p[1] = "contact_email" /\ Has(m, "email"))

\* C24, amended: a value supplied under an alias appears under the canonical
\* name, and the alias key is dropped, when the merged arguments do not
\* already hold the canonical name (for contact_email of send-email: nor
\* email, which comes first). When they do, the canonical name keeps its
\* value and the alias key stays, with its value, in the arguments; these
\* are the arguments every gateway call of the dispatch sends.
C24_AliasesAppliedWhenCanonicalAbsent ==
  Normalized =>
    /\ \A sent \in SentArgs : sent = args
    /\ \A p \in AliasPairs(call.alias) :
         Has(Merged, p[1]) =>
            IF AliasApplies(call.alias, Merged, p)
            THEN /\ Has(args, p[2])
                 /\ args[p[2]] = Merged[p[1]]
                 /\ ~Has(args, p[1])
            ELSE /\ Has(args, p[1])
                 /\ args[p[1]] = Merged[p[1]]
                 /\ Has(Merged, p[2]) => (Has(args, p[2]) /\ args[p[2]] = Merged[p[2]])

\* a ticket was created with location and email for address and
\* contact_email: the gateway got the canonical names only
C24_Witness ==
  /\ call.alias = "create_ticket_tool"
  /\ call.input = NoInput
  /\ call.kwargs = [k \in {"category", "description", "location", "email"} |-> KwVal(k)]
  /\ \E sent \in SentArgs :
        /\ DOMAIN sent = {"category", "description", "address", "contact_email"}
        /\ sent["address"] = KwVal("location")
        /\ sent["contact_email"] = KwVal("email")

\* a ticket was created with both address and location: location was sent too
C24_WitnessBoth ==
  /\ call.alias = "create_ticket_tool"
  /\ \E sent \in SentArgs :
        /\ Has(sent, "location")
        /\ sent["address"] = KwVal("address")

\* the gateway calls of the dispatch, in order
GatewayCalls == EventsOf({"call_tool"})

\* the value of a get-ticket-status dispatch whose only argument is an
\* identifier, given positionally, as id or as ticket_id; <<>> for any other dispatch
OnlyIdentifier ==
  IF call.alias # "get_ticket_status_tool" THEN <<>>
  ELSE IF call.input = StrInput(HexId) /\ call.kwargs = EmptyDict THEN HexId
  ELSE IF call.input = NoInput /\ DOMAIN call.kwargs = {"id"} THEN call.kwargs["id"]
  ELSE IF call.input = NoInput /\ DOMAIN call.kwargs = {"ticket_id"} THEN call.kwargs["ticket_id"]
  ELSE IF call.input.kind = "dict" /\ call.kwargs = EmptyDict
          /\ DOMAIN call.input.d = {"ticket_id"} THEN call.input.d["ticket_id"]
  ELSE <<>>

\* the dispatch is over: _call has returned or raised
DispatchOver == dpc \in {"returned", "raised"}

\* C25 as stated: a get-ticket-status dispatch whose only argument is an
\* identifier (positional, id or ticket_id) results in exactly one gateway
\* call, to the get_ticket_status remote tool, with ticket_id that value.
C25_ExactlyOneStatusCall ==
  (OnlyIdentifier # <<>> /\ DispatchOver) =>
     /\ Len(GatewayCalls) = 1
     /\ GatewayCalls[1].name = "target-get-ticket-status___get_ticket_status"
     /\ GatewayCalls[1].args = [k \in {"ticket_id"} |-> OnlyIdentifier]

\* C25, amended: such a dispatch passes validation, and every gateway call it
\* makes goes to the get_ticket_status remote tool with exactly ticket_id
\* equal to that value. It makes at most one gateway call per attempt of
\* call_tool: none when the token cannot be obtained, otherwise at most one
\* plus one after each backoff sleep, at most four, and at least one when
\* the dispatch returns.
C25_StatusCallsCarryTicketId ==
  OnlyIdentifier # <<>> =>
     /\ \A i \in 1..Len(GatewayCalls) :
           /\ GatewayCalls[i].name = "target-get-ticket-status___get_ticket_status"
           /\ GatewayCalls[i].args = [k \in {"ticket_id"} |-> OnlyIdentifier]
     /\ Len(GatewayCalls) <= 4
     /\ Len(GatewayCalls) <= 1 + Len(Sleeps)
     /\ dpc = "returned" => (Len(GatewayCalls) >= 1 /\ result.kind = "text")
     /\ (dpc = "raised" /\ Failures = <<>>) => Len(GatewayCalls) = 0

\* the status of 6e63bbbe was asked positionally and the one gateway call carried it
C25_Witness ==
  /\ call.alias = "get_ticket_status_tool"
  /\ call.input = StrInput(HexId)
  /\ call.kwargs = EmptyDict
  /\ dpc = "returned"
  /\ Len(GatewayCalls) = 1
  /\ GatewayCalls[1].args = [k \in {"ticket_id"} |-> HexId]

\* the identifier was given as id and the gateway was called twice
C25_WitnessRetried ==
  /\ OnlyIdentifier = KwVal("id")
  /\ dpc = "returned"
  /\ Len(GatewayCalls) = 2

\* C30: the reserved positional key __arg1 is never sent: no gateway call of
\* a dispatch that passed validation carries an __arg1 key.
C30_ReservedKeyNeverSent ==
  \A sent \in SentArgs : ~Has(sent, "__arg1")

(***************************************************************************)
(* Properties of the gateway client's result (checked under SpecFormat)    *)
(***************************************************************************)
\* the text fragments of a content, in response order
TextFragments(content) ==
  SelectSeq([i \in 1..Len(content) |-> content[i].text], LAMBDA t : t # <<>>)

\* C26: the result of call_tool is the text fragments of the response joined
\* with newlines in response order; when the response has no text fragment
\* (empty content, or no item with text) the result is a structured dump, so
\* it is never the empty string.
C26_TextsJoinedOrDump ==
  [][ dpc = "run" =>
        \A content \in net.contents :
           IF TextFragments(content) # <<>>
           THEN result' = Returned(JoinTexts(TextFragments(content), "\n"))
           ELSE result'.kind = "text" /\ result'.text # <<>> ]_vars

(***************************************************************************)
(* One call_tool of the gateway client: SpecGateway                        *)
(***************************************************************************)
\* a gateway whose attempts fail in the handshake or in the tool call
GatewayNet == [FullNet EXCEPT !.stages = {"initialize", "call_tool"}]

\* the arguments of the call_tool
GatewayArgs == { EmptyDict, [k \in {"ticket_id"} |-> HexId] }

\* call_tool(token, name, args) is entered: attempt 1, delay 0.5 s
InitGateway ==
  /\ clock = 0
  /\ _token = <<"tok-A">>
  /\ _expiry = 120
  /\ fetches = <<>>
  /\ \E a \in ToolAliases : call = [NoCall EXCEPT !.alias = a]
  /\ args \in GatewayArgs
  /\ dpc = "call_tool"
  /\ tok = <<"tok-A">>
  /\ attempt = 1
  /\ delay = InitialDelayMs
  /\ result = NoResult
  /\ log = <<>>
  /\ threads = NoThreads
  /\ net = GatewayNet
  /\ NoTurn

NextGateway ==
  \/ CallAttemptOk
  \/ CallAttemptFails
  \/ CallSleep

SpecGateway == InitGateway /\ [][NextGateway]_vars

(***************************************************************************)
(* Properties of the gateway sessions (checked under SpecGateway)          *)
(***************************************************************************)
\* the session events of the call, in order
SessionLog == EventsOf({"session_open", "initialize", "call_tool", "session_close"})

\* the sessions open after the first i session events
OpenAfter(i) ==
  Cardinality({ j \in 1..i : SessionLog[j].e = "session_open" })
    - Cardinality({ j \in 1..i : SessionLog[j].e = "session_close" })

\* the attempts call_tool has started
Attempts == IF dpc = "sleep" THEN attempt ELSE attempt - 1 + (IF DispatchOver THEN 1 ELSE 0)

\* C27 as stated: every attempt of call_tool runs connect, initialize, invoke
\* and teardown on a fresh session; at most one session is open at any time
\* and none is open once call_tool has returned or raised.
C27_EveryAttemptInvokes ==
  LET kind(i) == IF i \in 1..Len(SessionLog) THEN SessionLog[i].e ELSE "none"
  IN  /\ \A i \in 1..Len(SessionLog) :
            /\ OpenAfter(i) \in {0, 1}
            /\ kind(i) = "session_open" => kind(i + 1) = "initialize"
            /\ kind(i) = "initialize" => kind(i + 1) = "call_tool"
            /\ kind(i) = "call_tool" => kind(i + 1) = "session_close"
      /\ OpenAfter(Len(SessionLog)) = 0
      /\ Len(EventsOf({"session_open"})) = Attempts

\* C27, amended: every attempt of call_tool runs on a session of its own: it
\* connects, initializes, invokes the tool unless the initialization failed,
\* and tears the session down, in this order; at most one session is open at
\* any time, no session is open between attempts or once call_tool has
\* returned or raised, and an attempt that succeeded ran all four steps.
C27_SessionPerAttempt ==
  LET kind(i) == IF i \in 1..Len(SessionLog) THEN SessionLog[i].e ELSE "none"
  IN  /\ \A i \in 1..Len(SessionLog) :
            /\ OpenAfter(i) \in {0, 1}
            /\ kind(i) = "session_open" => kind(i + 1) = "initialize"
            /\ kind(i) = "initialize" =>
                  /\ kind(i - 1) = "session_open"
                  /\ kind(i + 1) \in {"call_tool", "session_close"}
            /\ kind(i) = "call_tool" =>
                  /\ kind(i - 1) = "initialize"
                  /\ kind(i + 1) = "session_close"
      /\ OpenAfter(Len(SessionLog)) = 0
      /\ Len(EventsOf({"session_open"})) = Attempts
      /\ dpc = "returned" =>
            /\ Len(SessionLog) >= 4
            /\ SubSeq(SessionLog, Len(SessionLog) - 3, Len(SessionLog))
                  = SessionEvents(McpName(call.alias), args)

\* call_tool returned on its third attempt: the first failed in the
\* handshake, the second in the tool call, and three sessions were opened
\* and closed
C27_Witness ==
  /\ dpc = "returned"
  /\ attempt = 3
  /\ [i \in 1..Len(SessionLog) |-> SessionLog[i].e]
       = << "session_open", "initialize", "session_close",
            "session_open", "initialize", "call_tool", "session_close",
            "session_open", "initialize", "call_tool", "session_close" >>

(***************************************************************************)
(* agentcore_311: fetch_tools_with_retry, step by step: SpecFetchTools     *)
(***************************************************************************)
\* the defaults of fetch_tools_with_retry(session, retries=5, base_delay=5.0),
\* the delay in seconds
retries == 5
base_delay == 5

\* mutant: the delay does not grow with the attempt
RetryDelay_flat(n) == base_delay

\* delay = base_delay * (2 ** attempt)
RetryDelay(n) == base_delay * (2 ^ n)

\* tools = await load_mcp_tools(session) returns: the tools are cached and returned
LoadToolsOk ==
  /\ pc = "load_mcp_tools"
  /\ attempt < retries
  /\ log' = Append(log, [Ev("list_tools") EXCEPT !.n = attempt + 1])
  /\ _cached_tools' = TRUE
  /\ result' = Returned(<<"tools">>)
  /\ pc' = "tools_returned"
  /\ UNCHANGED <<tokenVars, call, dpc, args, tok, attempt, delay, threads, net, graph,
                 session, variant, payload, text, messages, pending, outbox, ret,
                 invocations>>

\* load_mcp_tools raises: attempt += 1, the delay is computed, and the
\* exception is raised again if no attempt is left
LoadToolsFails ==
  /\ pc = "load_mcp_tools"
  /\ attempt < retries
  /\ \E exc \in net.errors :
       /\ log' = log \o << [Ev("list_tools") EXCEPT !.n = attempt + 1],
                           [Ev("attempt_failed") EXCEPT !.n = attempt + 1,
                                                        !.name = exc.type,
                                                        !.status = exc.status] >>
       /\ attempt' = attempt + 1
       /\ delay' = RetryDelay(attempt')
       /\ IF attempt' >= retries
          THEN /\ pc' = "tools_raised"
               /\ result' = Raised(exc)
          ELSE /\ pc' = "sleep"
               /\ UNCHANGED result
  /\ UNCHANGED <<tokenVars, call, dpc, args, tok, threads, net, procVars, variant, payload,
                 text, messages, pending, outbox, ret, invocations>>

\* await asyncio.sleep(delay), and the loop goes round
LoadToolsSleep ==
  /\ pc = "sleep"
  /\ log' = Append(log, [Ev("sleep") EXCEPT !.n = delay])
  /\ pc' = "load_mcp_tools"
  /\ UNCHANGED <<tokenVars, callVars, threads, net, procVars, variant, payload, text,
                 messages, pending, outbox, ret, invocations>>

\* build_graph calls fetch_tools_with_retry(session) on its open session:
\* the cache is unset, attempt = 0
InitFetchTools ==
  /\ clock = 0
  /\ _token = <<>>
  /\ _expiry = 0
  /\ fetches = <<>>
  /\ call = NoCall
  /\ dpc = "idle"
  /\ args = EmptyDict
  /\ tok = <<>>
  /\ attempt = 0
  /\ delay = 0
  /\ result = NoResult
  /\ log = <<>>
  /\ threads = NoThreads
  /\ net = FullNet
  /\ variant = "ac"
  /\ pc = "load_mcp_tools"
  /\ payload = EmptyDict
  /\ text = <<>>
  /\ messages = <<>>
  /\ pending = <<>>
  /\ outbox = <<>>
  /\ ret = NoResult
  /\ graph = "none"
  /\ _cached_tools = FALSE
  /\ session = "open"
  /\ invocations = 0

NextFetchTools ==
  \/ LoadToolsOk
  \/ LoadToolsFails
  \/ LoadToolsSleep

SpecFetchTools == InitFetchTools /\ [][NextFetchTools]_vars

(***************************************************************************)
(* Properties of fetch_tools_with_retry (checked under SpecFetchTools)     *)
(***************************************************************************)
\* the calls of the tool loader, and the delays slept, in order
LoaderCalls == EventsOf({"list_tools"})
LoaderSleeps == [i \in 1..Len(Sleeps) |-> Sleeps[i].n]

\* C28: fetch_tools_with_retry calls the tool loader at most retries times; on
\* the first success it stores the tools in the cache and returns them with
\* no further attempt; if every attempt fails it raises the exception of the
\* last attempt and leaves the cache unset; it sleeps between attempts, each
\* delay longer than the one before, and not after the last attempt.
C28_BoundedRetryOfToolLoad ==
  /\ Len(LoaderCalls) <= retries
  /\ Len(Failures) <= Len(LoaderCalls)
  /\ Len(LoaderCalls) <= Len(Failures) + 1
  /\ _cached_tools <=> pc = "tools_returned"
  /\ pc = "tools_returned" =>
        /\ result = Returned(<<"tools">>)
        /\ Len(LoaderCalls) = Len(Failures) + 1
        /\ log[Len(log)].e = "list_tools"
        /\ Len(Sleeps) = Len(Failures)
  /\ pc = "tools_raised" =>
        /\ Len(LoaderCalls) = retries
        /\ Len(Failures) = retries
        /\ result.kind = "raise"
        /\ result.exc.type = Failures[retries].name
        /\ result.exc.status = Failures[retries].status
        /\ Len(Sleeps) = retries - 1
        /\ log[Len(log)].e = "attempt_failed"
  /\ \A i \in 1..(Len(LoaderSleeps) - 1) : LoaderSleeps[i] < LoaderSleeps[i + 1]
  /\ \A i \in 1..Len(log) :
        log[i].e = "sleep" =>
           /\ i > 1 /\ log[i - 1].e = "attempt_failed"
           /\ i < Len(log) => log[i + 1].e = "list_tools"
           /\ i = Len(log) => pc = "load_mcp_tools"

\* every attempt failed, the last with a server error after four rate
\* limits: the server error was raised after sleeps of 10, 20, 40 and 80 s
C28_Witness ==
  /\ pc = "tools_raised"
  /\ [i \in 1..Len(Failures) |-> Failures[i].status] = <<429, 429, 429, 429, 500>>
  /\ result.exc.status = 500
  /\ LoaderSleeps = <<10, 20, 40, 80>>
  /\ ~_cached_tools

\* the tools were loaded on the third attempt
C28_WitnessLoaded ==
  /\ pc = "tools_returned"
  /\ Len(LoaderCalls) = 3
  /\ LoaderSleeps = <<10, 20>>
  /\ _cached_tools

(***************************************************************************)
(* Properties of the agentcore_311 gateway session (checked under Spec)    *)
(***************************************************************************)
\* the tool dispatches recorded in a log
ToolDispatches(l) == EventsOfLog(l, {"dispatch"})

\* C29: in agentcore_311 every tool invocation of a turn runs while the
\* session the tools were loaded from in build_graph is open.
C29_SessionOpenAtDispatch ==
  [][ (variant = "ac" /\ Len(ToolDispatches(log')) > Len(ToolDispatches(log)))
        => session = "open" ]_vars

(***************************************************************************)
(* Properties of a failed token fetch (checked under SpecToken)            *)
(***************************************************************************)
\* the answer makes the fetch fail: an error status, a body that is not
\* JSON, a body without access_token, or an expires_in that is not a number
FailingAnswer(resp) ==
  \/ resp.status >= 400
  \/ ~resp.json
  \/ ~resp.has_token
  \/ resp.exp_kind = "bad"

\* the fetch_token call a step completes
Completed(fs) == fs[Len(fs)]

\* C31: a token fetch that fails leaves the cached token and expiry as they
\* were, and the two change only together, to the access_token and the
\* expiry of one successful answer.
C31_FailedFetchKeepsCache ==
  [][ Len(fetches') = Len(fetches) + 1 =>
        LET f == Completed(fetches')
        IN  /\ (f.posted /\ FailingAnswer(f.resp)) =>
                  /\ ~f.ok
                  /\ _token' = _token
                  /\ _expiry' = _expiry
            /\ (_token' # _token \/ _expiry' # _expiry) =>
                  /\ f.posted /\ f.ok /\ ~FailingAnswer(f.resp)
                  /\ _token' = f.resp.token
                  /\ _expiry' = ExpiresAt(f) ]_vars

\* tok-A was cached with a validity of 30 s; the next fetch was answered with
\* a text for expires_in and failed, and tok-A with its expiry is still cached
C31_Witness ==
  /\ Len(fetches) >= 2
  /\ fetches[1].ok /\ fetches[1].cached = << <<"tok-A">>, 30 >>
  /\ fetches[2].posted /\ fetches[2].resp.exp_kind = "bad" /\ ~fetches[2].ok
  /\ fetches[2].cached = << <<"tok-A">>, 30 >>
  /\ Len(fetches) = 2 => (_token = <<"tok-A">> /\ _expiry = 30)

\* a fetch answered with a body that is not JSON failed on an empty cache
C31_WitnessUnparsable ==
  /\ Len(fetches) = 1
  /\ fetches[1].posted /\ ~fetches[1].resp.json /\ ~fetches[1].ok
  /\ _token = <<>> /\ _expiry = 0


\* ---------------------------------------------------------------------------
\* the start of a turn and the gap between two invocations
BeforeFirstModelCall ==
  /\ pc \in {"build", "chatbot"}
  /\ EventsOfLog(log, {"llm"}) = <<>>

BetweenInvocations == pc = "idle"

C32_WitnessLazyGraph ==
  /\ variant = "ac"
  /\ invocations = 1
  /\ pc = "idle"
  /\ graph = "built"
  /\ _cached_tools


\* ---------------------------------------------------------------------------
\* One turn under fair scheduling.  invoke runs on one thread: once a payload
\* has arrived every statement of the turn is executed in its order, the
\* model answers each llm.invoke, the gateway answers or fails each attempt
\* and time.sleep returns, so a turn that can take a step takes one.  No
\* fairness is put on the arrival of payloads.  graph.invoke is called
\* without a config in both programs; the step limit the graph library
\* applies by default is not part of the source and is not modelled.

\* a process that has served earlier invocations which never reached the
\* graph (an emergency, an empty prompt) and awaits the next payload
InitTurn ==
  /\ clock = 0
  /\ _token = <<>>
  /\ _expiry = 0
  /\ fetches = <<>>
  /\ call = NoCall
  /\ dpc = "idle"
  /\ args = EmptyDict
  /\ tok = <<>>
  /\ attempt = 0
  /\ delay = 0
  /\ result = NoResult
  /\ log = <<>>
  /\ threads = NoThreads
  /\ net = SmallNet
  /\ variant \in {"lb", "ac"}
  /\ pc = "idle"
  /\ payload = EmptyDict
  /\ text = <<>>
  /\ messages = <<>>
  /\ pending = <<>>
  /\ outbox = <<>>
  /\ ret = NoResult
  /\ graph = IF variant = "lb" THEN "built" ELSE "none"
  /\ _cached_tools = FALSE
  /\ session = "none"
  /\ invocations = MaxInvocations - 1

\* the steps of a running invocation: every action but the arrival of a payload
TurnStep ==
  \/ BuildGraphOk
  \/ BuildGraphFails
  \/ ToolStart
  \/ CallNormalize
  \/ CallFetchToken
  \/ CallAttemptFails
  \/ CallAttemptOk
  \/ CallSleep
  \/ ToolReturns
  \/ ToolErrorHandled
  \/ ToolErrorPropagates
  \/ UnknownTool
  \/ AcToolErrorHandled
  \/ AcToolErrorPropagates
  \/ ToolsDone
  \/ Chatbot
  \/ Return

SpecTurn == InitTurn /\ [][Next]_vars /\ WF_vars(TurnStep)

\* ---------------------------------------------------------------------------
\* where a turn stands and how it may have ended
InTurn == pc \in {"build", "chatbot", "tools"}

ModelCalls == Len(EventsOfLog(log, {"llm"}))

Terminated == pc = "done" /\ ret.kind = "text"

TurnRaised == pc = "done" /\ ret.kind = "raise"

ModelKeepsAsking == pc = "chatbot" /\ ModelCalls >= MaxModelCalls

LastReplyAsksTool(msgs) ==
  /\ msgs # <<>>
  /\ msgs[Len(msgs)].role = "ai"
  /\ msgs[Len(msgs)].tool_calls # <<>>

RoutedByLastReply ==
  [][ /\ (pc = "chatbot" /\ pc' # "chatbot") =>
            /\ ModelCalls' = ModelCalls + 1
            /\ IF LastReplyAsksTool(messages')
               THEN pc' = "tools" /\ ret' = NoResult
               ELSE pc' = "done" /\ ret'.kind = "text"
      /\ (pc = "tools" /\ pc' # "tools") =>
            \/ pc' = "chatbot" /\ ret' = NoResult /\ ModelCalls' = ModelCalls
            \/ pc' = "done" /\ ret'.kind = "raise" ]_vars

\* what is left of the turn, in the order the code runs it: the replies the
\* model may still give, the node, the tool calls still pending, the
\* position inside call_tool with its remaining attempts
PhaseRank == CASE pc = "build" -> 2 [] pc = "tools" -> 2 [] pc = "chatbot" -> 1 [] OTHER -> 0

CallRank ==
  CASE dpc = "idle" -> 2 * max_attempts + 4
    [] dpc = "called" -> 2 * max_attempts + 3
    [] dpc = "fetch_token" -> 2 * max_attempts + 2
    [] dpc = "call_tool" -> 2 * (max_attempts - attempt) + 3
    [] dpc = "sleep" -> 2 * (max_attempts - attempt) + 2
    [] OTHER -> 0

Rank == << MaxModelCalls - ModelCalls, PhaseRank, Len(pending), CallRank >>

LexLess(x, y) ==
  \E i \in 1..Len(x) :
    /\ x[i] < y[i]
    /\ \A j \in 1..(i - 1) : x[j] = y[j]

TurnAdvances == [][ InTurn => LexLess(Rank', Rank) ]_vars

NeverStuck == [](InTurn /\ ~ModelKeepsAsking => ENABLED TurnStep)

EndsInDone == [](~InTurn => pc \in {"idle", "done"} /\ (pc = "done" => Terminated \/ TurnRaised))

TurnEventuallyEnds == InTurn ~> (Terminated \/ TurnRaised \/ ModelKeepsAsking)

C33_WitnessAlternating ==
  /\ ModelKeepsAsking
  /\ \E i \in 1..Len(messages) : messages[i].role = "tool"

=============================================================================
